---------------------------- MODULE Spec2Model ----------------------------
(***************************************************************************)
(* Artificer engine: the persistent background job queue, its worker, and  *)
(* the part of a chat request that creates a conversation and queues its   *)
(* title job.  The jobs in the queue are the title jobs of the chat        *)
(* requests and the jobs a caller of the shared Db::create_job inserts.    *)
(*                                                                         *)
(* Grain of atomicity: one action per SQL statement (a statement runs in   *)
(* autocommit mode under the mutex of its connection,                      *)
(* crates/shared/src/db/mod.rs:42-44, and SQLite serializes the statements *)
(* of the connections on one file); the control flow between two           *)
(* statements belongs to the action of the statement that precedes it.     *)
(* The handler of a job (an LLM call followed by at most one UPDATE) and   *)
(* the statement that records its result are one action: what lies between*)
(* them touches no row of table background.  The worker and the request    *)
(* handlers are taken to work on one database file.                        *)
(***************************************************************************)
EXTENDS Integers, Sequences, FiniteSets, TLC

\* ------------------------------------------------------------------ bounds
MaxJobs  == 2      \* rows of table background
MaxClock == 1      \* SystemTime::now() in seconds, 0..MaxClock
NumHashes == 2     \* distinct values of the 8-hex uuid prefix

\* ------------------------------------------------------- program constants
DefaultMaxRetries == 3          \* max_retries INTEGER NOT NULL DEFAULT 3
TitlePriority == 1              \* Conversation::create_title_job
NULL == -1                      \* SQL NULL of an INTEGER column

Hashes == 1..NumHashes
Times == 0..MaxClock

\* Task::from_str: the titles of define_tasks!.
TaskTitles ==
    {"title_generation", "summarization", "translation", "extraction",
     "memory_extraction", "router", "chat", "web_research", "file_smith",
     "summarizer"}

\* worker::execute: the tasks that have a job handler.
Implemented == {"title_generation", "summarization", "memory_extraction"}

\* Db::create_job of the shared crate takes the method as a free &str:
\* one title that parses but has no handler, one that does not parse (the
\* method the older conversation service queues), each with a priority.
RawJobs == {<<"translation", 10>>, <<"create_title", 5>>}

VARIABLES
    background,     \* table background: Seq of job rows, id = index
    conversations,  \* table conversations: Seq of rows, id = index
    request,        \* request[c]: the chat request that created conversation c
    now,            \* the clock: the last value read from it
    shutdown,       \* the watch channel's value
    wpc,            \* the worker's position
    caller,         \* "run" or "drain": who called process_next_job
    cur,            \* PendingJob.id held by process_next_job, 0 if none
    runs            \* history: runs[id] = number of handler invocations

jobVars == <<background, conversations, request, now, shutdown, wpc, caller,
             cur, runs>>

\* The event bus (crates/engine/src/events/mod.rs) and the streamed chat
\* requests that use it.
VARIABLES
    EVENT_CHANNELS, \* the ids that have a broadcast::Sender in the map
    queue,          \* queue[id]: what the channel of id has stored, in order
    rx,             \* rx[id]: the Receiver handed to the SSE stream
    sent,           \* history: sent[id] = the events the request's task sent
    received,       \* history: received[id] = indices of sent[id] delivered
    tpc,            \* tpc[id]: position of the spawned task of request id
    reply,          \* reply[id]: how execute_with_prompt ended
    persisted,      \* the ids whose assistant message has been written
    late            \* history: the ids a send was made for without a channel

busVars == <<EVENT_CHANNELS, queue, rx, sent, received, tpc, reply, persisted,
             late>>

\* One invocation of Task::execute on an agentic-loop task
\* (crates/engine/src/task/mod.rs).
VARIABLES
    lpc,            \* position in execute / execute_agentic_loop
    task,           \* self: the task the loop runs under
    messages,       \* the message list
    response,       \* tool_calls of the response of the current turn
    idx,            \* index of the tool call the for loop is at
    trace,          \* history: LLM invocations, events and tool executions
    result          \* the value execute returned

loopVars == <<lpc, task, messages, response, idx, trace, result>>

\* One call of Task::execute_pipeline (crates/engine/src/task/mod.rs).
VARIABLES
    ppc,            \* position in execute_pipeline
    steps,          \* the Vec<PipelineStep> it was called with
    pos,            \* the step the for loop is at
    context,        \* the String context
    ptrace,         \* the events emitted and the steps executed, in order
    presult         \* what execute_pipeline returned

pipeVars == <<ppc, steps, pos, context, ptrace, presult>>

\* Table messages and the chat requests that write to it
\* (conversation.rs, handlers.rs).
VARIABLES
    store,          \* table messages: Seq of rows, in insertion order
    reqs            \* reqs[r]: position, conversation and message_count of r

convVars == <<store, reqs>>

\* One call of EventSender::tool_result by the loop (events/mod.rs).
VARIABLES
    toolResult      \* the result text, what was emitted, what was pushed

truncVars == <<toolResult>>

\* One run of the memory_extraction job handler and table local_task_data
\* (task/background/memory_extraction.rs, memory/mod.rs).
VARIABLES
    memStore,       \* table local_task_data: Seq of rows, id = index
    mjob,           \* the running handler: position, conversation, now
    mclock          \* SystemTime::now() of the handler, in seconds

memVars == <<memStore, mjob, mclock>>

\* One call of Title::sanitize_title (src/services/title.rs).
VARIABLES
    san             \* the title given, the title returned, and the
                    \* result of sanitizing that one again

sanVars == <<san>>

\* One call of Task::build_system_prompt (crates/engine/src/task/mod.rs).
VARIABLES
    sysPrompt       \* the task, the memories the query gave, the result

promptVars == <<sysPrompt>>

\* One call of Specialist::execute_streaming
\* (crates/engine/src/task/specialist.rs).
VARIABLES
    stream          \* the frames, the bytes still to come, buffer,
                    \* full_content, tool_calls, role and the result

streamVars == <<stream>>

\* The subsystems below the event layer.
extVars == <<memVars, sanVars, promptVars, streamVars>>

vars == <<jobVars, busVars, loopVars, pipeVars, convVars, truncVars, extVars>>

NoTitle == [kind |-> "null", v |-> 0, n |-> 0]

\* ------------------------------------------------------------ job rows
\* INSERT INTO background (device_id, method, arguments, priority, status,
\* created_at): the other columns take their defaults.
NewJob(method, conv, priority, t) ==
    [method |-> method, conversation_id |-> conv, priority |-> priority,
     status |-> "pending", created_at |-> t, started_at |-> NULL,
     completed_at |-> NULL, retries |-> 0, max_retries |-> DefaultMaxRetries]

IsPendingOrFailed(job) == job.status \in {"pending", "failed"}
\* WHERE status = 'pending'
IsPending(job) == job.status = "pending"

PendingIds == {i \in 1..Len(background) : IsPending(background[i])}

PrecedesAsc(a, b) ==
    \/ a.priority < b.priority
    \/ a.priority = b.priority /\ a.created_at <= b.created_at
\* ORDER BY priority DESC, created_at ASC: a is not after b.
Precedes(a, b) ==
    \/ a.priority > b.priority
    \/ a.priority = b.priority /\ a.created_at <= b.created_at

\* The rows LIMIT 1 may return: SQL leaves the order of ties open.
FirstPending ==
    {i \in PendingIds :
        \A k \in PendingIds : Precedes(background[i], background[k])}

\* PendingJob::from_row: Task::from_str on the method (the arguments are
\* written by Value::to_string and always parse).
FromRowOk(job) == job.method \in TaskTitles

OnlyRunning == \E i \in 1..Len(background) : background[i].status = "running"
\* SELECT COUNT(*) FROM background WHERE status IN ('pending','running') > 0
HasPendingJobs ==
    \E i \in 1..Len(background) :
        background[i].status \in {"pending", "running"}

MarkJobRunningNoStamp(job, t) == [job EXCEPT !.status = "running"]
\* UPDATE background SET status = 'running', started_at = ?1
MarkJobRunning(job, t) ==
    [job EXCEPT !.status = "running", !.started_at = t]

\* UPDATE background SET status = 'completed', completed_at = ?1, result = ?2
MarkJobComplete(job, t) ==
    [job EXCEPT !.status = "completed", !.completed_at = t]

NewRetriesTwice(retries) == retries + 2
NewRetries(retries) == retries + 1

ExhaustedStrict(new_retries, max_retries) == new_retries > max_retries
Exhausted(new_retries, max_retries) == new_retries >= max_retries

RetryStatusRunning == "running"
\* let status = if exhausted { "failed" } else { "pending" }
RetryStatus == "pending"

\* UPDATE background SET status = ?1, retries = ?2, result = ?3
MarkJobFailed(job) ==
    LET new_retries == NewRetries(job.retries)
    IN  [job EXCEPT
            !.status = IF Exhausted(new_retries, job.max_retries)
                       THEN "failed" ELSE RetryStatus,
            !.retries = new_retries]

FinishJobAlwaysComplete(job, ok, t) == MarkJobComplete(job, t)
\* match result { Ok(res) => self.mark_job_complete(..),
\*                Err(e) => self.mark_job_failed(..) }
FinishJob(job, ok, t) ==
    IF ok THEN MarkJobComplete(job, t) ELSE MarkJobFailed(job)

\* ------------------------------------------------------------ titles
TitleExists(t) ==
    \E c \in 1..Len(conversations) : conversations[c].title = t

\* Title::find_available_title: <base>_<n> for the least free n >= 1.
FindAvailableTitle(base) ==
    LET free == {k \in 1..(Len(conversations) + 1) :
                    ~TitleExists([kind |-> "generated", v |-> base, n |-> k])}
    IN  [kind |-> "generated", v |-> base,
         n |-> CHOOSE k \in free : \A m \in free : k <= m]

\* The title the title_generation handler writes for a sanitized base.
FinalTitle(base) ==
    LET plain == [kind |-> "generated", v |-> base, n |-> 0]
    IN  IF TitleExists(plain) THEN FindAvailableTitle(base) ELSE plain

\* format!("conv_{}", &uuid[..8])
FallbackTitle(h) == [kind |-> "fallback", v |-> h, n |-> 0]

\* UNIQUE(device_id, title) of table conversations, for an UPDATE of row c
\* (the conversations modelled are those of one device).
UniqueViolation(c, t) ==
    \E d \in 1..Len(conversations) :
        /\ d # c
        /\ conversations[d].title = t

\* ------------------------------------------------------------ event bus
\* handle_chat_stream: request_id = uuid::Uuid::new_v4(), of two requests.
RequestIds == {"r1", "r2"}

\* broadcast::channel(100): the number of events a channel retains (the
\* model takes a small number for the program's 100).
BufCap == 1
\* The events a request's task sends before its terminal event.
MaxEvents == 2

\* ChatEvent::Done / ChatEvent::Error
TerminalKinds == {"Done", "Error"}

NoReceiver == [state |-> "none", next |-> 1]

\* create_channel: let (tx, rx) = broadcast::channel(..)
NewReceiver == [state |-> "open", next |-> 1]

ChannelsAfterSendInsert(channels, id) == channels \cup {id}
\* send_event locks the map and only reads it: channels.get(id).
ChannelsAfterSend(channels, id) == channels

LookupAny(channels, id) == channels
\* channels.get(id): the entries of the map whose Sender send_event uses.
Lookup(channels, id) == channels \cap {id}

\* let _ = tx.send(event): the value is stored when a Receiver exists;
\* without one send returns Err, which is ignored.
StoreEvent(q, hasReceiver, item) == IF hasReceiver THEN Append(q, item) ELSE q

\* The oldest position the channel still retains.
FirstRetained(q) == IF Len(q) > BufCap THEN Len(q) - BufCap + 1 ELSE 1

RecvOutcomeClosedFirst(next, q, senderAlive) ==
    IF ~senderAlive THEN "closed"
    ELSE IF next < FirstRetained(q) THEN "lagged"
    ELSE IF next <= Len(q) THEN "value"
    ELSE "empty"
\* BroadcastStream::new(rx): what the next poll of the Receiver yields.
\* Values stored before the Sender was dropped are still delivered.
RecvOutcome(next, q, senderAlive) ==
    IF next < FirstRetained(q) THEN "lagged"
    ELSE IF next <= Len(q) THEN "value"
    ELSE IF ~senderAlive THEN "closed"
    ELSE "empty"

AdvanceCursorStuck(next) == next
\* The Receiver moves on to the next position after a value.
AdvanceCursor(next) == next + 1

\* The agentic loop sends ToolCall and ToolResult in turns.
ProgressKind(n) == IF n % 2 = 0 THEN "ToolCall" ELSE "ToolResult"

BusInit ==
    /\ EVENT_CHANNELS = {}
    /\ queue = [id \in RequestIds |-> <<>>]
    /\ rx = [id \in RequestIds |-> NoReceiver]
    /\ sent = [id \in RequestIds |-> <<>>]
    /\ received = [id \in RequestIds |-> <<>>]
    /\ tpc = [id \in RequestIds |-> "none"]
    /\ reply = [id \in RequestIds |-> "none"]
    /\ persisted = {}
    /\ late = {}

\* ------------------------------------------------------------ agentic loop
\* LLM invocations of one Task::execute (the code has no bound of its own).
MaxTurns == 2
\* Tool calls in one response.
MaxCalls == 2

\* define_tasks!: the tasks with task_type: TaskType::AgenticLoop.
AgenticTasks == {"chat", "web_research", "file_smith"}

\* Task::task_type
TaskType(t) == IF t \in AgenticTasks THEN "AgenticLoop" ELSE "Singular"

\* The arguments of a call that carry no "task".
MissingArg == "<none>"
\* args["task"] of a switch_task call: an agentic task, a singular task, a
\* string that names no task.
SwitchTargets == {"web_research", "router", "no_such_task"}

\* Tool names an LLM may call: one registered with location Server, one
\* registered with location Client, one that no toolbelt registers.
ToolNames == {"search", "read_file", "no_such_tool"}

\* get_tool_schema(name).location over TOOL_SCHEMAS; "none" for Err.
SchemaLocation(name) ==
    CASE name = "search" -> "Server"
      [] name = "read_file" -> "Client"
      [] OTHER -> "none"

\* TOOL_REGISTRY: the names that have a handler.
HandlerTable == {"search", "read_file"}

ExecModeAlwaysRemote(name) == "remote"
\* The executor the loop picks: ToolExecutor::remote(..) for a schema with
\* location Client, ToolExecutor::local() for Server, and use_tool (the
\* local handler table) when the name has no schema.
ExecMode(name) ==
    IF SchemaLocation(name) = "Client" THEN "remote" ELSE "local"

\* What an execution can give: the handler's or the client's Ok text, an
\* error of the handler or of the HTTP call, or use_tool's
\* "Tool '..' not found" for a name without a handler.
Outcomes(name) ==
    IF ExecMode(name) = "local" /\ name \notin HandlerTable
    THEN {"not_found"}
    ELSE {"ok", "error"}

\* The text of a result: .unwrap_or_else(|e| format!("Error: {}", e))
ResultText(name, outcome) ==
    CASE outcome = "ok" -> <<"output of ", name>>
      [] outcome = "not_found" -> <<"Error: ", "Tool '", name, "' not found">>
      [] OTHER -> <<"Error: ", "failure of ", name>>

\* ToolCall.function: a tool of the registry, or switch_task.
Calls ==
    {[name |-> "search", target |-> MissingArg]} \cup
    {[name |-> "switch_task", target |-> t] : t \in SwitchTargets}

\* ResponseMessage.tool_calls: Option<Vec<ToolCall>>
NoToolCalls == [some |-> FALSE, calls |-> <<>>]
\* The lists the model lets the LLM answer with: up to MaxCalls calls, at
\* most one of them a switch_task call, at any position.
SwitchCount(c) ==
    Cardinality({i \in 1..Len(c) : c[i].name = "switch_task"})
ToolCallLists ==
    {NoToolCalls} \cup
    {[some |-> TRUE, calls |-> c] :
        c \in {d \in UNION {[1..n -> Calls] : n \in 0..MaxCalls} :
                 SwitchCount(d) <= 1}}

\* Responses that call tools of every kind of registration and no
\* switch_task.
DispatchLists ==
    {[some |-> TRUE, calls |-> c] :
        c \in UNION {[1..n -> {[name |-> t, target |-> MissingArg] :
                                   t \in ToolNames}] : n \in 1..MaxCalls}}

\* if let Some(tool_calls) = &response.tool_calls
HasToolCalls(tool_calls) == tool_calls.some

\* execute_with_prompt: the system prompt, then the user's messages.
InitialMessages ==
    <<[role |-> "system", kind |-> "prompt"], [role |-> "user", kind |-> "user"]>>

\* response.to_message()
ResponseToMessage(tool_calls) ==
    [role |-> "assistant", kind |-> "response", tool_calls |-> tool_calls]

\* Message { role: "assistant", content: Some(result), tool_calls: None }
ResultMessage(call, outcome) ==
    [role |-> "assistant", kind |-> "result", call |-> call,
     outcome |-> outcome, content |-> ResultText(call.name, outcome)]

\* Message { role: "system", content: "Task switch: {} -> {}. ..." }
SwitchMessage(from, to) ==
    [role |-> "system", kind |-> "switch", from |-> from, to |-> to]

MessagesAfterSwitchFresh(msgs, from, to) == <<SwitchMessage(from, to)>>
\* messages.push(Message { .. "Task switch" .. })
MessagesAfterSwitch(msgs, from, to) == Append(msgs, SwitchMessage(from, to))

ResultsFirst(call_event, exec, result_event) == <<exec, result_event, call_event>>
\* One tool call: ev.tool_call, the execution, ev.tool_result.
ToolCallSteps(call_event, exec, result_event) ==
    <<call_event, exec, result_event>>

NoResult == [kind |-> "none"]

LoopInit ==
    /\ lpc = "idle"
    /\ task = "chat"
    /\ messages = InitialMessages
    /\ response = NoToolCalls
    /\ idx = 0
    /\ trace = <<>>
    /\ result = NoResult

\* ------------------------------------------------------------ pipeline
\* Steps in one call of execute_pipeline.
MaxSteps == 3

\* PipelineStep.task: an agentic task, two singular tasks, a string that
\* names no task.
StepTasks == {"chat", "router", "summarizer", "no_such_task"}

\* PipelineStep.directions of the step at position n (text is modelled as a
\* sequence of tokens).
DirectionsOf(n) == <<"directions", n>>

\* The inputs: every list of up to MaxSteps steps over StepTasks.
StepLists ==
    UNION {[1..n -> StepTasks] : n \in 0..MaxSteps}
PipelineSteps(tasks) ==
    [n \in 1..Len(tasks) |-> [task |-> tasks[n], directions |-> DirectionsOf(n)]]

\* ResponseMessage.content of the step at position n: absent, empty, or a
\* text of its own.
NoContent == [some |-> FALSE, text |-> <<>>]
ContentsOf(n) ==
    {NoContent, [some |-> TRUE, text |-> <<>>],
     [some |-> TRUE, text |-> <<"content", n>>]}

UserContentAlwaysContext(directions, ctx) ==
    directions \o <<"\n\n# Context from previous step:\n">> \o ctx
\* let user_content = if context.is_empty() { .. } else { format!(..) }
UserContent(directions, ctx) ==
    IF ctx = <<>>
    THEN directions
    ELSE directions \o <<"\n\n# Context from previous step:\n">> \o ctx

ContextAccumulated(ctx, content) == ctx \o content.text
\* context = response.content.clone().unwrap_or_default()
ContextAfter(ctx, content) == IF content.some THEN content.text ELSE <<>>

\* Task::specialist
SpecialistOf(t) ==
    CASE t \in {"chat", "web_research", "file_smith"} -> "ToolCaller"
      [] t \in {"router", "summarizer"} -> "Reasoner"
      [] OTHER -> "Quick"

\* Task::execution_context
IsInteractive(t) ==
    t \in {"chat", "web_research", "file_smith", "router", "summarizer"}

\* Task::available_switches: every task has switches_to: [].
AvailableSwitches(t) == {}

\* registry::get_tools(): the tools of TOOL_SCHEMAS.
RegistryTools == {"search", "read_file"}

\* task::registry::get_available_tasks
AvailableTaskTools(t) ==
    IF AvailableSwitches(t) = {} THEN {} ELSE {"switch_task"}

\* Specialist::tools: what Specialist::execute puts in ChatRequest.tools.
AdvertisedTools(t) ==
    (CASE SpecialistOf(t) = "ToolCaller" -> RegistryTools
       [] SpecialistOf(t) = "Coder" -> {"read_file"}
       [] OTHER -> {})
    \cup (IF IsInteractive(t) THEN AvailableTaskTools(t) ELSE {})

PipeInit ==
    /\ ppc = "idle"
    /\ steps = <<>>
    /\ pos = 0
    /\ context = <<>>
    /\ ptrace = <<>>
    /\ presult = NoResult

\* ------------------------------------------------------------ messages
\* Chat requests.
MaxRequests == 3
Requests == 1..MaxRequests
\* Conversations a request can continue or create.
MaxConversations == 2

NoRequest == [pc |-> "none", conv |-> 0, count |-> 0]

ConvInit ==
    /\ store = <<>>
    /\ reqs = [r \in Requests |-> NoRequest]

\* ------------------------------------------------------------ tool_result
\* The byte length from which tool_result truncates (500 in the code).
TruncateAt == 2
\* Characters in a result text.
MaxTextLen == 4
\* UTF-8 widths of a character, in bytes.
CharWidths == {1, 2, 3}

\* A result text: the sequence of the byte widths of its characters.
Texts == UNION {[1..n -> CharWidths] : n \in 0..MaxTextLen}

NoToolResult == [kind |-> "none"]

TruncInit == toolResult = NoToolResult

\* ------------------------------------------------------------ memory store
\* Runs of the memory_extraction handler.
MaxExtractions == 2
\* Entries of extraction.memories in one run.
MemoryCounts == {0, 1, 2}

\* conversations.device_id of the conversations a job can name.
ConvDevice == <<1, 2>>
MemConversations == 1..Len(ConvDevice)

\* The fields of an ExtractedMemory as the LLM returns them; confidence is
\* an f64, counted here in tenths (10 is 1.0).
MemKeys == {"", "operating_system", "project"}
MemValues == {"", "v1", "v2"}
MemTypes == {"fact", "opinion"}
Confidences == {10, 15}
ExtractedMemories ==
    [key : MemKeys, value : MemValues, memory_type : MemTypes,
     confidence : Confidences]

\* matches!(memory_type, "fact" | "preference" | "context"), and the CHECK
\* of the column.
ValidMemoryTypes == {"fact", "preference", "context"}

GeneralKeys ==
    {"operating_system", "home_directory", "user_name", "timezone", "shell",
     "editor"}

is_general_memory(key) == key \in GeneralKeys

TargetTaskId(key) == IF is_general_memory(key) THEN 1 ELSE 2

\* if key.is_empty() || value.is_empty() { continue }, then the
\* memory_type test.
Skipped(m) ==
    \/ m.key = "" \/ m.value = ""
    \/ m.memory_type \notin ValidMemoryTypes

\* The row of the VALUES clause.
MemoryRow(device, conv, m, t) ==
    [device_id |-> device, task_id |-> TargetTaskId(m.key),
     conversation_id |-> conv, key |-> m.key, value |-> m.value,
     memory_type |-> m.memory_type, confidence |-> m.confidence,
     created_at |-> t, updated_at |-> t]

\* The rows that conflict with row on UNIQUE(device_id, task_id, key).
Conflicts(rows, row) ==
    {i \in 1..Len(rows) : /\ rows[i].device_id = row.device_id
                          /\ rows[i].task_id = row.task_id
                          /\ rows[i].key = row.key}

\* INSERT ... ON CONFLICT(device_id, task_id, key) DO UPDATE SET ...
UpsertAlwaysInsert(rows, row) == Append(rows, row)
Upsert(rows, row) ==
    IF Conflicts(rows, row) = {}
    THEN Append(rows, row)
    ELSE [i \in 1..Len(rows) |->
            IF i \in Conflicts(rows, row)
            THEN [rows[i] EXCEPT !.value = row.value,
                                 !.memory_type = row.memory_type,
                                 !.confidence = row.confidence,
                                 !.updated_at = row.updated_at,
                                 !.conversation_id = row.conversation_id]
            ELSE rows[i]]

\* mjob.last when the iteration stored nothing.
NoMemory == [key |-> "", value |-> "", memory_type |-> "", confidence |-> 0]

NoMemJob ==
    [pc |-> "idle", conv |-> 0, now |-> 0, left |-> 0, runs |-> 0,
     last |-> NoMemory]

MemInit ==
    /\ memStore = <<>>
    /\ mjob = NoMemJob
    /\ mclock = 0

\* ------------------------------------------------------------ titles
\* Characters of a title the LLM returns.
MaxTitleLen == 4

\* 'a'..='z' | 'A'..='Z' | '0'..='9'
AsciiAlnum ==
    {"a", "b", "c", "d", "e", "f", "g", "h", "i", "j", "k", "l", "m", "n",
     "o", "p", "q", "r", "s", "t", "u", "v", "w", "x", "y", "z",
     "A", "B", "C", "D", "E", "F", "G", "H", "I", "J", "K", "L", "M", "N",
     "O", "P", "Q", "R", "S", "T", "U", "V", "W", "X", "Y", "Z",
     "0", "1", "2", "3", "4", "5", "6", "7", "8", "9"}

\* The characters titles are drawn from: a letter, a digit, the
\* underscore, a listed separator and a letter outside ASCII (the
\* catch-all arm).
TitleChars == {"a", "7", "_", "-", "é"}

\* The title of the documented example.
ExampleTitle ==
    <<"H", "e", "l", "l", "o", ",", " ", "W", "o", "r", "l", "d", "!", " ",
      "/", " ", "T", "e", "s", "t", "-", "1">>

ExampleSanitized ==
    <<"H", "e", "l", "l", "o", "_", "W", "o", "r", "l", "d", "_",
      "T", "e", "s", "t", "_", "1">>

RECURSIVE SeqsUpTo(_, _)
SeqsUpTo(S, n) ==
    IF n = 0
    THEN {<<>>}
    ELSE LET shorter == SeqsUpTo(S, n - 1)
         IN  shorter \cup {Append(t, c) : t \in shorter, c \in S}

Titles == SeqsUpTo(TitleChars, MaxTitleLen) \cup {ExampleTitle}

\* The closure of chars().map(..).
MapChar(c) == IF c \in AsciiAlnum THEN c ELSE "_"

\* str::split('_'): the pieces between the separators, empty ones too.
RECURSIVE Split(_, _)
Split(s, sep) ==
    IF \A i \in 1..Len(s) : s[i] # sep
    THEN <<s>>
    ELSE LET i == CHOOSE k \in 1..Len(s) :
                      /\ s[k] = sep
                      /\ \A j \in 1..(k - 1) : s[j] # sep
         IN  <<SubSeq(s, 1, i - 1)>> \o Split(SubSeq(s, i + 1, Len(s)), sep)

\* .filter(|s| !s.is_empty())
IsPiece(p) == p # <<>>
KeepAll(pieces) == pieces
NonEmptyPieces(pieces) == SelectSeq(pieces, IsPiece)

\* [&str]::join("_")
RECURSIVE Join(_, _)
Join(pieces, sep) ==
    IF pieces = <<>>
    THEN <<>>
    ELSE IF Len(pieces) = 1
         THEN pieces[1]
         ELSE pieces[1] \o <<sep>> \o Join(Tail(pieces), sep)

sanitize_title(title) ==
    Join(NonEmptyPieces(Split([i \in 1..Len(title) |-> MapChar(title[i])],
                              "_")),
         "_")

NoTitleCall == [n |-> 0, title |-> <<>>, out |-> <<>>, again |-> <<>>]

SanInit == san = NoTitleCall

\* ------------------------------------------------------------ system prompt
\* Rows the memory query of build_system_prompt returns.
MaxPromptMemories == 2

PromptTasks == {"chat", "router", "web_research", "file_smith", "summarizer"}

\* TOOL_SCHEMAS, one tool of each toolbelt: schema.name is
\* "<Toolbelt>::<tool>".
ToolSchemas ==
    <<[belt |-> "FileSmith", tool |-> "read_file"],
      [belt |-> "Archivist", tool |-> "query_db"],
      [belt |-> "WebSearch", tool |-> "search"],
      [belt |-> "Router", tool |-> "plan_tasks"]>>

\* The prefixes build_system_prompt passes for a task.
SchemaPrefixes(t) ==
    CASE t = "router" -> {"Router"}
      [] t = "chat" -> {"Archivist"}
      [] t = "web_research" -> {"WebSearch"}
      [] t = "file_smith" -> {"FileSmith"}
      [] OTHER -> {}

\* The schemas whose name starts with one of the prefixes.
get_tool_schemas_for(prefixes) ==
    LET HasPrefix(schema) == schema.belt \in prefixes
    IN  SelectSeq(ToolSchemas, HasPrefix)

\* A piece of the prompt text.
Piece(kind, a, b, n) == [kind |-> kind, a |-> a, b |-> b, n |-> n]

\* self.instructions()
Instructions(t) == <<Piece("instructions", t, "", 0)>>

\* "\n\n# Available Tools\n", then name, description and parameters of
\* each schema.
RECURSIVE SchemaPieces(_)
SchemaPieces(schemas) ==
    IF schemas = <<>>
    THEN <<>>
    ELSE <<Piece("## tool", schemas[1].belt, schemas[1].tool, 0),
           Piece("description", schemas[1].belt, schemas[1].tool, 0),
           Piece("Parameters:", schemas[1].belt, schemas[1].tool, 0)>>
         \o SchemaPieces(Tail(schemas))

ToolSection(t) ==
    LET tool_schemas == get_tool_schemas_for(SchemaPrefixes(t))
    IN  IF tool_schemas = <<>>
        THEN <<>>
        ELSE <<Piece("# Available Tools", "", "", 0)>>
             \o SchemaPieces(tool_schemas)

\* Rows of the memory query; confidence in tenths.
PromptMemoryTypes == {"fact", "context", "preference"}
PromptConfidences == {5, 9}
PromptMemories == [memory_type : PromptMemoryTypes,
                   confidence : PromptConfidences]

\* ORDER BY CASE memory_type .. END, confidence DESC
TypeRank(ty) ==
    CASE ty = "fact" -> 1
      [] ty = "context" -> 2
      [] ty = "preference" -> 3

InQueryOrder(mems) ==
    \A i \in 1..(Len(mems) - 1) :
        \/ TypeRank(mems[i].memory_type) < TypeRank(mems[i + 1].memory_type)
        \/ /\ mems[i].memory_type = mems[i + 1].memory_type
           /\ mems[i].confidence >= mems[i + 1].confidence

MemoryLists ==
    {mems \in SeqsUpTo(PromptMemories, MaxPromptMemories) :
        InQueryOrder(mems)}

OfType(mems, ty) ==
    LET IsType(m) == m.memory_type = ty
    IN  SelectSeq(mems, IsType)

RECURSIVE FactLines(_)
FactLines(facts) ==
    IF facts = <<>>
    THEN <<>>
    ELSE (IF facts[1].confidence >= 8
          THEN <<Piece("- key: value", "fact", "", facts[1].confidence)>>
          ELSE <<>>)
         \o FactLines(Tail(facts))

RECURSIVE ContextLines(_)
ContextLines(ctx) ==
    IF ctx = <<>>
    THEN <<>>
    ELSE <<Piece("- key: value", "context", "", ctx[1].confidence)>>
         \o ContextLines(Tail(ctx))

RECURSIVE PreferenceLines(_)
PreferenceLines(prefs) ==
    IF prefs = <<>>
    THEN <<>>
    ELSE <<Piece(IF prefs[1].confidence >= 7
                 THEN "- User prefers:"
                 ELSE "- User sometimes prefers:",
                 "preference", "", prefs[1].confidence)>>
         \o PreferenceLines(Tail(prefs))

\* The three blocks, in the order the code pushes them.
MemoryBlocks(mems) ==
    LET facts == OfType(mems, "fact")
        context_rows == OfType(mems, "context")
        preferences == OfType(mems, "preference")
    IN  (IF facts # <<>>
         THEN <<Piece("# System Information", "", "", 0)>> \o FactLines(facts)
         ELSE <<>>)
        \o (IF context_rows # <<>>
            THEN <<Piece("# Current Context", "", "", 0)>>
                 \o ContextLines(context_rows)
            ELSE <<>>)
        \o (IF preferences # <<>>
            THEN <<Piece("# User Preferences", "", "", 0)>>
                 \o PreferenceLines(preferences)
                 \o <<Piece("Note: These are preferences", "", "", 0)>>
            ELSE <<>>)

\* build_system_prompt: the first `prompt` gets the instructions and the
\* tool section; the empty-memories return gives base_instructions, and
\* the second `let mut prompt` starts again from base_instructions.
build_system_prompt(t, mems) ==
    LET prompt == Instructions(t) \o ToolSection(t)
    IN  IF mems = <<>>
        THEN Instructions(t)
        ELSE Instructions(t) \o MemoryBlocks(mems)

NoPromptCall == [n |-> 0, task |-> "", memories |-> <<>>, out |-> <<>>]

PromptInit == sysPrompt = NoPromptCall

\* ------------------------------------------------------------ streaming
\* Frames (lines of JSON) in one streamed response.
MaxFrames == 2

\* Option<String> and Option<Vec<ToolCall>> of a frame's message.
Absent == [some |-> FALSE, v |-> <<>>]
Present(v) == [some |-> TRUE, v |-> v]

FrameRoles == {"assistant", "tool"}
FrameContents == {Absent, Present(<<>>), Present(<<"x">>), Present(<<"y">>)}
FrameToolCalls == {Absent, Present(<<>>), Present(<<"call">>)}

\* StreamChunk.message
Frames == [role : FrameRoles, content : FrameContents,
           tool_calls : FrameToolCalls]

FrameLists == SeqsUpTo(Frames, MaxFrames)

\* The bytes of the body: frame k is two bytes wide, so that a network
\* chunk can end inside it, and b'\n' ends it.
Newline == [f |-> 0, half |-> 0]

RECURSIVE WireFrom(_, _)
WireFrom(k, n) ==
    IF k > n
    THEN <<>>
    ELSE <<[f |-> k, half |-> 1], [f |-> k, half |-> 2], Newline>>
         \o WireFrom(k + 1, n)

\* The body of n frames, with or without the newline of the last one.
Wire(n, trailing_newline) ==
    IF n > 0 /\ ~trailing_newline
    THEN SubSeq(WireFrom(1, n), 1, 3 * n - 1)
    ELSE WireFrom(1, n)

\* full_content, tool_calls and role before the first frame.
NoFrames == [full_content |-> <<>>, tool_calls |-> Absent,
             role |-> "assistant", err |-> FALSE]

\* serde_json::from_str(line)?: a line is a frame when it holds the two
\* bytes of one frame.
IsFrame(line) ==
    /\ Len(line) = 2
    /\ line[1].f = line[2].f
    /\ line[1].half = 1
    /\ line[2].half = 2

\* The body of the loops for one trimmed line.
AbsorbToolCalls(frame, acc) ==
    IF frame.tool_calls.some
    THEN [acc EXCEPT !.tool_calls = frame.tool_calls]
    ELSE acc

AbsorbContent(frame, acc) ==
    IF frame.content.some /\ frame.content.v # <<>>
    THEN [acc EXCEPT !.full_content = @ \o frame.content.v]
    ELSE acc

AbsorbLine(frames, line, acc) ==
    IF line = <<>>
    THEN acc
    ELSE IF ~IsFrame(line)
         THEN [acc EXCEPT !.err = TRUE]
         ELSE LET frame == frames[line[1].f]
              IN  AbsorbToolCalls(frame,
                      AbsorbContent(frame, [acc EXCEPT !.role = frame.role]))

\* buffer.iter().position(|&b| b == b'\n')
NewlinePos(buffer) ==
    IF \A i \in 1..Len(buffer) : buffer[i] # Newline
    THEN 0
    ELSE CHOOSE k \in 1..Len(buffer) :
             /\ buffer[k] = Newline
             /\ \A j \in 1..(k - 1) : buffer[j] # Newline

\* The inner while loop: every complete line of the buffer is drained and
\* absorbed; a line that does not parse returns Err.
RECURSIVE DrainLines(_, _, _)
DrainLines(frames, buffer, acc) ==
    IF NewlinePos(buffer) = 0 \/ acc.err
    THEN [buffer |-> buffer, acc |-> acc]
    ELSE DrainLines(frames,
                    SubSeq(buffer, NewlinePos(buffer) + 1, Len(buffer)),
                    AbsorbLine(frames,
                               SubSeq(buffer, 1, NewlinePos(buffer) - 1),
                               acc))

\* Ok(ResponseMessage { role, content, tool_calls })
StreamResponse(acc) ==
    [role |-> acc.role,
     content |-> IF acc.full_content = <<>>
                 THEN Absent
                 ELSE Present(acc.full_content),
     tool_calls |-> acc.tool_calls]

NoStream ==
    [pc |-> "idle", frames |-> <<>>, wire |-> <<>>, buffer |-> <<>>,
     acc |-> NoFrames, chunks |-> 0, response |-> StreamResponse(NoFrames)]

StreamInit == stream = NoStream

\* ------------------------------------------------------------ Init
Init ==
    /\ background = <<>>
    /\ conversations = <<>>
    /\ request = <<>>
    /\ now = 0
    /\ shutdown = FALSE
    /\ wpc = "run"
    /\ caller = "run"
    /\ cur = 0
    /\ runs = <<>>
    /\ BusInit
    /\ LoopInit
    /\ PipeInit
    /\ ConvInit
    /\ TruncInit
    /\ MemInit
    /\ SanInit
    /\ PromptInit
    /\ StreamInit

Alive == wpc # "exited"

\* SystemTime::now(): a value not before the last one read.
ClockRead(t) ==
    /\ t \in now..MaxClock
    /\ now' = t

InsertJob(job) ==
    /\ background' = Append(background, job)
    /\ runs' = Append(runs, 0)

\* ------------------------------------------------- request handlers
\* Conversation::init, called by the chat handler for a request without a
\* conversation_id: create_conversation_entry (title NULL), then
\* create_title_job.  The client sends one chat request at a time: the
\* next one after the previous one has ended.
ChatInit(t) ==
    /\ Alive
    /\ Len(background) < MaxJobs
    /\ \A c \in 1..Len(request) : request[c] = "terminated"
    /\ ClockRead(t)
    /\ conversations' = Append(conversations, [title |-> NoTitle])
    /\ request' = Append(request, "running")
    /\ InsertJob(NewJob("title_generation", Len(conversations) + 1,
                        TitlePriority, t))
    /\ UNCHANGED <<shutdown, wpc, caller, cur>>
    /\ UNCHANGED <<busVars, loopVars, pipeVars, convVars,
                 truncVars, extVars>>

\* The spawned task of handle_chat_stream ends: events.complete or
\* events.error has been sent.
ChatTerminate(c) ==
    /\ Alive
    /\ request[c] = "running"
    /\ request' = [request EXCEPT ![c] = "terminated"]
    /\ UNCHANGED <<background, conversations, now, shutdown, wpc, caller,
                   cur, runs>>
    /\ UNCHANGED <<busVars, loopVars, pipeVars, convVars,
                 truncVars, extVars>>

\* Db::create_job of the shared crate, with a caller-chosen method string
\* and priority.
CreateJob(task_title, priority, t) ==
    /\ Alive
    /\ Len(background) < MaxJobs
    /\ ClockRead(t)
    /\ InsertJob(NewJob(task_title, 0, priority, t))
    /\ UNCHANGED <<conversations, request, shutdown, wpc, caller, cur>>
    /\ UNCHANGED <<busVars, loopVars, pipeVars, convVars,
                 truncVars, extVars>>

\* main: ctrl_c() returned, shutdown_tx.send(true).
Shutdown ==
    /\ Alive
    /\ ~shutdown
    /\ shutdown' = TRUE
    /\ UNCHANGED <<background, conversations, request, now, wpc, caller,
                   cur, runs>>
    /\ UNCHANGED <<busVars, loopVars, pipeVars, convVars,
                 truncVars, extVars>>

\* ------------------------------------------------------------ worker
\* Worker::run, top of the loop, no shutdown: call process_next_job.
RunLoop ==
    /\ wpc = "run"
    /\ ~shutdown
    /\ wpc' = "select"
    /\ caller' = "run"
    /\ UNCHANGED <<background, conversations, request, now, shutdown, cur, runs>>
    /\ UNCHANGED <<busVars, loopVars, pipeVars, convVars,
                 truncVars, extVars>>

\* Worker::run sees the shutdown signal and breaks; main then calls
\* drain_queue on the returned worker.
RunExit ==
    /\ wpc = "run"
    /\ shutdown
    /\ wpc' = "drain"
    /\ caller' = "drain"
    /\ UNCHANGED <<background, conversations, request, now, shutdown, cur, runs>>
    /\ UNCHANGED <<busVars, loopVars, pipeVars, convVars,
                 truncVars, extVars>>

\* Worker::drain_queue, top of the loop: has_pending_jobs decides between
\* another process_next_job and the return.
DrainCheck ==
    /\ wpc = "drain"
    /\ wpc' = IF HasPendingJobs THEN "select" ELSE "exited"
    /\ UNCHANGED <<background, conversations, request, now, shutdown, caller,
                   cur, runs>>
    /\ UNCHANGED <<busVars, loopVars, pipeVars, convVars,
                 truncVars, extVars>>

\* process_next_job: the SELECT finds no pending row and returns Ok(()).
SelectNone ==
    /\ wpc = "select"
    /\ PendingIds = {}
    /\ wpc' = caller
    /\ UNCHANGED <<background, conversations, request, now, shutdown, caller,
                   cur, runs>>
    /\ UNCHANGED <<busVars, loopVars, pipeVars, convVars,
                 truncVars, extVars>>

\* process_next_job: the SELECT returns row id; from_row fails on it and the
\* error is returned to the loop (which logs it), or the job is held.
SelectJob(id) ==
    /\ wpc = "select"
    /\ id \in FirstPending
    /\ IF FromRowOk(background[id])
       THEN /\ cur' = id
            /\ wpc' = "mark_running"
       ELSE /\ cur' = 0
            /\ wpc' = caller
    /\ UNCHANGED <<background, conversations, request, now, shutdown, caller, runs>>
    /\ UNCHANGED <<busVars, loopVars, pipeVars, convVars,
                 truncVars, extVars>>

\* process_next_job: self.mark_job_running(job.id)
DoMarkJobRunning(t) ==
    /\ wpc = "mark_running"
    /\ ClockRead(t)
    /\ background' = [background EXCEPT ![cur] = MarkJobRunning(@, t)]
    /\ wpc' = "execute"
    /\ UNCHANGED <<conversations, request, shutdown, caller, cur, runs>>
    /\ UNCHANGED <<busVars, loopVars, pipeVars, convVars,
                 truncVars, extVars>>

\* if exhausted && matches!(job.task, Task::TitleGeneration)
NeedsFallback(job) ==
    /\ job.status = "failed"
    /\ job.method = "title_generation"

\* process_next_job from execute(..).await to the end of the match on its
\* result, the fallback statement excepted: the handler has run with
\* result ok, and the job is marked (mark_job_complete reads the clock,
\* mark_job_failed does not).
Finish(ok, t) ==
    /\ IF ok THEN ClockRead(t) ELSE t = now /\ now' = now
    /\ runs' = [runs EXCEPT ![cur] = @ + 1]
    /\ background' = [background EXCEPT ![cur] = FinishJob(@, ok, t)]
    /\ IF NeedsFallback(background'[cur])
       THEN /\ wpc' = "fallback"
            /\ cur' = cur
       ELSE /\ wpc' = caller
            /\ cur' = 0

\* worker::execute on a task without a handler: Err("Task not implemented").
ExecuteUnimplemented ==
    /\ wpc = "execute"
    /\ background[cur].method \notin Implemented
    /\ Finish(FALSE, now)
    /\ UNCHANGED <<conversations, request, shutdown, caller>>
    /\ UNCHANGED <<busVars, loopVars, pipeVars, convVars,
                 truncVars, extVars>>

\* A handler fails (LLM transport error, empty title, unparsable reply):
\* it has written nothing.
ExecuteErr ==
    /\ wpc = "execute"
    /\ background[cur].method \in Implemented
    /\ Finish(FALSE, now)
    /\ UNCHANGED <<conversations, request, shutdown, caller>>
    /\ UNCHANGED <<busVars, loopVars, pipeVars, convVars,
                 truncVars, extVars>>

\* title_generation::execute succeeds: UPDATE conversations SET title.
ExecuteTitleOk(t) ==
    /\ wpc = "execute"
    /\ background[cur].method = "title_generation"
    /\ conversations' =
          [conversations EXCEPT ![background[cur].conversation_id].title =
              FinalTitle(0)]
    /\ Finish(TRUE, t)
    /\ UNCHANGED <<request, shutdown, caller>>
    /\ UNCHANGED <<busVars, loopVars, pipeVars, convVars,
                 truncVars, extVars>>

\* process_next_job: UPDATE conversations SET title = conv_<hash>; a
\* UNIQUE(device_id, title) violation makes the statement fail and the
\* error is returned to the loop.
Fallback(h) ==
    /\ wpc = "fallback"
    /\ LET c == background[cur].conversation_id
       IN  conversations' =
             IF UniqueViolation(c, FallbackTitle(h))
             THEN conversations
             ELSE [conversations EXCEPT ![c].title = FallbackTitle(h)]
    /\ wpc' = caller
    /\ cur' = 0
    /\ UNCHANGED <<background, request, now, shutdown, caller, runs>>
    /\ UNCHANGED <<busVars, loopVars, pipeVars, convVars,
                 truncVars, extVars>>

WorkerNext ==
    \/ RunLoop
    \/ RunExit
    \/ DrainCheck
    \/ SelectNone
    \/ \E id \in 1..MaxJobs : SelectJob(id)
    \/ \E t \in Times : DoMarkJobRunning(t)
    \/ ExecuteUnimplemented
    \/ ExecuteErr
    \/ \E t \in Times : ExecuteTitleOk(t)
    \/ \E h \in Hashes : Fallback(h)

HandlerNext ==
    \/ \E t \in Times : ChatInit(t)
    \/ \E c \in 1..Len(request) : ChatTerminate(c)
    \/ \E j \in RawJobs, t \in Times : CreateJob(j[1], j[2], t)

Next == WorkerNext \/ HandlerNext \/ Shutdown

Spec == Init /\ [][Next]_vars

\* The tokio runtime keeps polling the worker task, and main awaits it.
FairSpec == Spec /\ WF_vars(WorkerNext)

\* ==================================================================
\* The event bus and the streamed chat request
\* ==================================================================
\* send_event(id, event): lookup and send.
SendEvent(id, item) ==
    /\ EVENT_CHANNELS' = ChannelsAfterSend(EVENT_CHANNELS, id)
    /\ queue' = [k \in RequestIds |->
                    IF k \in Lookup(EVENT_CHANNELS, id)
                    THEN StoreEvent(queue[k], rx[k].state = "open", item)
                    ELSE queue[k]]

\* A send of the request's own task: the event is the next of sent[id].
TaskSend(id, kind) ==
    /\ sent' = [sent EXCEPT ![id] = Append(@, kind)]
    /\ SendEvent(id, [id |-> id, n |-> Len(sent[id]) + 1, kind |-> kind])

\* handle_chat_stream up to the return of the Sse: create_channel, then
\* tokio::spawn of the task.  The ids are fresh uuids: "r1" names the one
\* drawn first.
HandleChatStream(id) ==
    /\ tpc[id] = "none"
    /\ id = "r2" => tpc["r1"] # "none"
    /\ EVENT_CHANNELS' = EVENT_CHANNELS \cup {id}
    /\ rx' = [rx EXCEPT ![id] = NewReceiver]
    /\ tpc' = [tpc EXCEPT ![id] = "init"]
    /\ UNCHANGED <<queue, sent, received, reply, persisted, late>>
    /\ UNCHANGED <<jobVars, loopVars, pipeVars, convVars,
                 truncVars, extVars>>

\* The request names its conversation, or conversation.init succeeds.
ConversationReady(id) ==
    /\ tpc[id] = "init"
    /\ tpc' = [tpc EXCEPT ![id] = "exec"]
    /\ UNCHANGED <<EVENT_CHANNELS, queue, rx, sent, received, reply,
                   persisted, late>>
    /\ UNCHANGED <<jobVars, loopVars, pipeVars, convVars,
                 truncVars, extVars>>

\* conversation.init fails: events.error(..), first half (send_event).
InitErr(id) ==
    /\ tpc[id] = "init"
    /\ TaskSend(id, "Error")
    /\ tpc' = [tpc EXCEPT ![id] = "cleanup"]
    /\ UNCHANGED <<rx, received, reply, persisted, late>>
    /\ UNCHANGED <<jobVars, loopVars, pipeVars, convVars,
                 truncVars, extVars>>

\* Inside execute_with_prompt: ev.tool_call(..) / ev.tool_result(..).
SendProgress(id) ==
    /\ tpc[id] = "exec"
    /\ Len(sent[id]) < MaxEvents
    /\ TaskSend(id, ProgressKind(Len(sent[id])))
    /\ UNCHANGED <<rx, received, tpc, reply, persisted, late>>
    /\ UNCHANGED <<jobVars, loopVars, pipeVars, convVars,
                 truncVars, extVars>>

\* ev.tool_result(..) on a result longer than 500 bytes whose byte 500 is
\* inside a multi-byte character: &result[..500] panics before send_event,
\* and the panic ends the spawned task.
ToolResultPanic(id) ==
    /\ tpc[id] = "exec"
    /\ Len(sent[id]) < MaxEvents
    /\ ProgressKind(Len(sent[id])) = "ToolResult"
    /\ tpc' = [tpc EXCEPT ![id] = "panicked"]
    /\ UNCHANGED <<EVENT_CHANNELS, queue, rx, sent, received, reply,
                   persisted, late>>
    /\ UNCHANGED <<jobVars, loopVars, pipeVars, convVars,
                 truncVars, extVars>>

\* execute_with_prompt returns Ok(response), with or without content.
ExecOk(id, content) ==
    /\ tpc[id] = "exec"
    /\ reply' = [reply EXCEPT ![id] = IF content THEN "content" ELSE "empty"]
    /\ tpc' = [tpc EXCEPT ![id] = IF content THEN "persist" ELSE "complete"]
    /\ UNCHANGED <<EVENT_CHANNELS, queue, rx, sent, received, persisted, late>>
    /\ UNCHANGED <<jobVars, loopVars, pipeVars, convVars,
                 truncVars, extVars>>

\* execute_with_prompt returns Err(e): events.error(..), first half.
ExecErr(id) ==
    /\ tpc[id] = "exec"
    /\ reply' = [reply EXCEPT ![id] = "err"]
    /\ TaskSend(id, "Error")
    /\ tpc' = [tpc EXCEPT ![id] = "cleanup"]
    /\ UNCHANGED <<rx, received, persisted, late>>
    /\ UNCHANGED <<jobVars, loopVars, pipeVars, convVars,
                 truncVars, extVars>>

\* conversation.add_message(.., "assistant", content, ..)
Persist(id) ==
    /\ tpc[id] = "persist"
    /\ persisted' = persisted \cup {id}
    /\ tpc' = [tpc EXCEPT ![id] = "complete"]
    /\ UNCHANGED <<EVENT_CHANNELS, queue, rx, sent, received, reply, late>>
    /\ UNCHANGED <<jobVars, loopVars, pipeVars, convVars,
                 truncVars, extVars>>

\* events.complete(conversation_id), first half (send_event).
Complete(id) ==
    /\ tpc[id] = "complete"
    /\ TaskSend(id, "Done")
    /\ tpc' = [tpc EXCEPT ![id] = "cleanup"]
    /\ UNCHANGED <<rx, received, reply, persisted, late>>
    /\ UNCHANGED <<jobVars, loopVars, pipeVars, convVars,
                 truncVars, extVars>>

\* events.complete / events.error, second half: cleanup_channel removes the
\* entry, which drops the Sender; the task ends.
CleanupChannel(id) ==
    /\ tpc[id] = "cleanup"
    /\ EVENT_CHANNELS' = EVENT_CHANNELS \ {id}
    /\ tpc' = [tpc EXCEPT ![id] = "done"]
    /\ UNCHANGED <<queue, rx, sent, received, reply, persisted, late>>
    /\ UNCHANGED <<jobVars, loopVars, pipeVars, convVars,
                 truncVars, extVars>>

\* send_event for an id that has no entry: never created, or removed by
\* cleanup_channel.  One such call is followed.
LateSend(id, kind) ==
    /\ id \notin EVENT_CHANNELS
    /\ late = {}
    /\ late' = late \cup {id}
    /\ SendEvent(id, [id |-> id, n |-> 0, kind |-> kind])
    /\ UNCHANGED <<rx, sent, received, tpc, reply, persisted>>
    /\ UNCHANGED <<jobVars, loopVars, pipeVars, convVars,
                 truncVars, extVars>>

\* The SSE stream polls the Receiver and gets a value: Some(Ok(event)).
RecvEvent(id) ==
    /\ rx[id].state = "open"
    /\ RecvOutcome(rx[id].next, queue[id], id \in EVENT_CHANNELS) = "value"
    /\ received' = [received EXCEPT ![id] = Append(@, queue[id][rx[id].next].n)]
    /\ rx' = [rx EXCEPT ![id].next = AdvanceCursor(@)]
    /\ UNCHANGED <<EVENT_CHANNELS, queue, sent, tpc, reply, persisted, late>>
    /\ UNCHANGED <<jobVars, loopVars, pipeVars, convVars,
                 truncVars, extVars>>

\* The poll gets Lagged(n): filter_map drops the Err, and the Receiver is
\* at the oldest retained value.
RecvLagged(id) ==
    /\ rx[id].state = "open"
    /\ RecvOutcome(rx[id].next, queue[id], id \in EVENT_CHANNELS) = "lagged"
    /\ rx' = [rx EXCEPT ![id].next = FirstRetained(queue[id])]
    /\ UNCHANGED <<EVENT_CHANNELS, queue, sent, received, tpc, reply,
                   persisted, late>>
    /\ UNCHANGED <<jobVars, loopVars, pipeVars, convVars,
                 truncVars, extVars>>

\* The poll finds the channel closed and empty: the stream ends.
RecvClosed(id) ==
    /\ rx[id].state = "open"
    /\ RecvOutcome(rx[id].next, queue[id], id \in EVENT_CHANNELS) = "closed"
    /\ rx' = [rx EXCEPT ![id].state = "ended"]
    /\ UNCHANGED <<EVENT_CHANNELS, queue, sent, received, tpc, reply,
                   persisted, late>>
    /\ UNCHANGED <<jobVars, loopVars, pipeVars, convVars,
                 truncVars, extVars>>

\* The client goes away: axum drops the Sse stream and with it the Receiver.
Disconnect(id) ==
    /\ rx[id].state = "open"
    /\ rx' = [rx EXCEPT ![id].state = "dropped"]
    /\ UNCHANGED <<EVENT_CHANNELS, queue, sent, received, tpc, reply,
                   persisted, late>>
    /\ UNCHANGED <<jobVars, loopVars, pipeVars, convVars,
                 truncVars, extVars>>

StreamTaskNext ==
    \E id \in RequestIds :
        \/ ConversationReady(id)
        \/ InitErr(id)
        \/ SendProgress(id)
        \/ ToolResultPanic(id)
        \/ \E content \in BOOLEAN : ExecOk(id, content)
        \/ ExecErr(id)
        \/ Persist(id)
        \/ Complete(id)
        \/ CleanupChannel(id)

SubscriberNext ==
    \E id \in RequestIds :
        \/ RecvEvent(id)
        \/ RecvLagged(id)
        \/ RecvClosed(id)
        \/ Disconnect(id)

BusNext ==
    \/ \E id \in RequestIds : HandleChatStream(id)
    \/ StreamTaskNext
    \/ SubscriberNext
    \/ \E id \in RequestIds, kind \in {"ToolCall"} : LateSend(id, kind)

BusSpec == Init /\ [][BusNext]_vars


\* ==================================================================
\* The agentic loop
\* ==================================================================
\* The specialist.execute calls made so far.
LlmCount == Cardinality({i \in 1..Len(trace) : trace[i].op = "llm"})

LlmEntry(tool_calls) ==
    [op |-> "llm", task |-> task, messages |-> messages,
     tool_calls |-> tool_calls]

\* The tool call the for loop is at.
CurrentCall == response.calls[idx]

\* ev.tool_call(self.title(), tool_name, args)
ToolCallEvent ==
    [op |-> "ToolCall", task |-> task, turn |-> LlmCount, n |-> idx,
     call |-> CurrentCall]

\* executor.execute(tool_name, args) / tool_registry::use_tool(..)
ToolExecution ==
    [op |-> "exec", task |-> task, turn |-> LlmCount, n |-> idx,
     call |-> CurrentCall, mode |-> ExecMode(CurrentCall.name)]

\* ev.tool_result(self.title(), tool_name, result)
ToolResultEvent ==
    [op |-> "ToolResult", task |-> task, turn |-> LlmCount, n |-> idx,
     call |-> CurrentCall]

\* ev.task_switch(self.title(), target_task.title())
TaskSwitchEvent(from, to) == [op |-> "TaskSwitch", from |-> from, to |-> to]

\* handle_chat_stream: Task::Chat.execute_with_prompt(..) -> Task::execute.
Execute ==
    /\ lpc = "idle"
    /\ lpc' = "llm"
    /\ UNCHANGED <<task, messages, response, idx, trace, result>>
    /\ UNCHANGED <<jobVars, busVars, pipeVars, convVars,
                 truncVars, extVars>>

\* Task::execute of a Singular task: the response of specialist.execute is
\* returned as it is.
LlmSingular(tool_calls) ==
    /\ lpc = "llm"
    /\ TaskType(task) = "Singular"
    /\ LlmCount < MaxTurns
    /\ trace' = Append(trace, LlmEntry(tool_calls))
    /\ result' = [kind |-> "ok", tool_calls |-> tool_calls]
    /\ lpc' = "returned"
    /\ UNCHANGED <<task, messages, response, idx>>
    /\ UNCHANGED <<jobVars, busVars, pipeVars, convVars,
                 truncVars, extVars>>

\* execute_agentic_loop, top of the loop: specialist.execute answers, the
\* response is pushed, and its tool_calls decide between the for loop and
\* the return.
LlmAgentic(tool_calls) ==
    /\ lpc = "llm"
    /\ TaskType(task) = "AgenticLoop"
    /\ LlmCount < MaxTurns
    /\ trace' = Append(trace, LlmEntry(tool_calls))
    /\ messages' = Append(messages, ResponseToMessage(tool_calls))
    /\ IF HasToolCalls(tool_calls)
       THEN /\ response' = tool_calls
            /\ idx' = IF tool_calls.calls = <<>> THEN 0 ELSE 1
            /\ lpc' = IF tool_calls.calls = <<>> THEN "llm" ELSE "calls"
            /\ result' = result
       ELSE /\ result' = [kind |-> "ok", tool_calls |-> tool_calls]
            /\ lpc' = "returned"
            /\ UNCHANGED <<response, idx>>
    /\ UNCHANGED task
    /\ UNCHANGED <<jobVars, busVars, pipeVars, convVars,
                 truncVars, extVars>>

\* specialist.execute(..).await? fails: the error is returned.
LlmErr ==
    /\ lpc = "llm"
    /\ result' = [kind |-> "err"]
    /\ lpc' = "failed"
    /\ UNCHANGED <<task, messages, response, idx, trace>>
    /\ UNCHANGED <<jobVars, busVars, pipeVars, convVars,
                 truncVars, extVars>>

\* One pass of the for loop on a tool that is not switch_task: the tool
\* runs and gives its text or "Error: ..", which is pushed.
RunTool(outcome) ==
    /\ lpc = "calls"
    /\ CurrentCall.name # "switch_task"
    /\ outcome \in Outcomes(CurrentCall.name)
    /\ trace' = trace \o ToolCallSteps(ToolCallEvent, ToolExecution,
                                       ToolResultEvent)
    /\ messages' = Append(messages, ResultMessage(CurrentCall, outcome))
    /\ IF idx = Len(response.calls)
       THEN lpc' = "llm" /\ idx' = 0
       ELSE lpc' = "calls" /\ idx' = idx + 1
    /\ UNCHANGED <<task, response, result>>
    /\ UNCHANGED <<jobVars, busVars, pipeVars, convVars,
                 truncVars, extVars>>

\* The tool's result makes ev.tool_result panic (&result[..500] off a char
\* boundary): the task that runs the loop ends there.
RunToolPanic(outcome) ==
    /\ lpc = "calls"
    /\ CurrentCall.name # "switch_task"
    /\ outcome \in Outcomes(CurrentCall.name)
    /\ trace' = trace \o <<ToolCallEvent, ToolExecution>>
    /\ result' = [kind |-> "panic", outcome |-> outcome]
    /\ lpc' = "panicked"
    /\ UNCHANGED <<task, messages, response, idx>>
    /\ UNCHANGED <<jobVars, busVars, pipeVars, convVars,
                 truncVars, extVars>>

\* switch_task with a target Task::from_str knows: the event, the system
\* message, and target_task.execute(messages, ..) is what the loop returns.
SwitchTask ==
    /\ lpc = "calls"
    /\ CurrentCall.name = "switch_task"
    /\ CurrentCall.target \in TaskTitles
    /\ trace' = trace \o
          <<ToolCallEvent, TaskSwitchEvent(task, CurrentCall.target)>>
    /\ messages' = MessagesAfterSwitch(messages, task, CurrentCall.target)
    /\ task' = CurrentCall.target
    /\ response' = NoToolCalls
    /\ idx' = 0
    /\ lpc' = "llm"
    /\ UNCHANGED result
    /\ UNCHANGED <<jobVars, busVars, pipeVars, convVars,
                 truncVars, extVars>>

\* switch_task with a name Task::from_str does not know: the loop returns
\* Err("Unknown task: ..").
SwitchUnknown ==
    /\ lpc = "calls"
    /\ CurrentCall.name = "switch_task"
    /\ CurrentCall.target \notin TaskTitles
    /\ trace' = Append(trace, ToolCallEvent)
    /\ result' = [kind |-> "err"]
    /\ lpc' = "failed"
    /\ UNCHANGED <<task, messages, response, idx>>
    /\ UNCHANGED <<jobVars, busVars, pipeVars, convVars,
                 truncVars, extVars>>

\* handle_chat_stream, Ok(response): the content, when there is one, is
\* saved as the assistant message, then events.complete sends Done.
HandleOk(has_content) ==
    /\ lpc = "returned"
    /\ trace' = trace \o
          (IF has_content THEN <<[op |-> "persist", role |-> "assistant"]>>
                          ELSE <<>>) \o <<[op |-> "Done"]>>
    /\ lpc' = "done"
    /\ UNCHANGED <<task, messages, response, idx, result>>
    /\ UNCHANGED <<jobVars, busVars, pipeVars, convVars,
                 truncVars, extVars>>

HandleErrSendsDone ==
    /\ lpc = "failed"
    /\ trace' = Append(trace, [op |-> "Done"])
    /\ lpc' = "done"
    /\ UNCHANGED <<task, messages, response, idx, result>>
    /\ UNCHANGED <<jobVars, busVars, pipeVars, convVars,
                 truncVars, extVars>>
\* handle_chat_stream, Err(e): events.error sends Error.
HandleErr ==
    /\ lpc = "failed"
    /\ trace' = Append(trace, [op |-> "Error"])
    /\ lpc' = "done"
    /\ UNCHANGED <<task, messages, response, idx, result>>
    /\ UNCHANGED <<jobVars, busVars, pipeVars, convVars,
                 truncVars, extVars>>

AllOutcomes == {"ok", "error", "not_found"}

LoopNext ==
    \/ Execute
    \/ \E tool_calls \in ToolCallLists : LlmSingular(tool_calls)
    \/ \E tool_calls \in ToolCallLists : LlmAgentic(tool_calls)
    \/ LlmErr
    \/ \E outcome \in AllOutcomes : RunTool(outcome)
    \/ \E outcome \in AllOutcomes : RunToolPanic(outcome)
    \/ SwitchTask
    \/ SwitchUnknown
    \/ \E has_content \in BOOLEAN : HandleOk(has_content)
    \/ HandleErr

LoopSpec == Init /\ [][LoopNext]_vars

\* The loop on a first response that calls tools of every kind of
\* registration, followed by a response without tool calls.
DispatchNext ==
    \/ Execute
    \/ \E tool_calls \in DispatchLists :
          LlmCount = 0 /\ LlmAgentic(tool_calls)
    \/ LlmCount > 0 /\ LlmAgentic(NoToolCalls)
    \/ \E outcome \in AllOutcomes : RunTool(outcome)
    \/ \E has_content \in BOOLEAN : HandleOk(has_content)

DispatchSpec == Init /\ [][DispatchNext]_vars

\* ==================================================================
\* The pipeline driver
\* ==================================================================
OtherThanPipe == <<jobVars, busVars, loopVars, convVars, truncVars, extVars>>

\* The PipelineStep the for loop is at.
CurrentStep == steps[pos]

\* What the pipeline records of one step: the content given to the task,
\* the tools advertised to its LLM, and the content (or error) it returned.
StepEntry(outcome) ==
    [op |-> "step", n |-> pos, task |-> CurrentStep.task,
     user_content |-> UserContent(CurrentStep.directions, context),
     tools |-> AdvertisedTools(CurrentStep.task),
     outcome |-> outcome]

\* A caller invokes Task::execute_pipeline(steps, ..).
ExecutePipeline(tasks) ==
    /\ ppc = "idle"
    /\ steps' = PipelineSteps(tasks)
    /\ pos' = 1
    /\ context' = <<>>
    /\ ppc' = "loop"
    /\ UNCHANGED <<ptrace, presult>>
    /\ UNCHANGED OtherThanPipe

\* Task::from_str(&step.task) gives None: the pipeline returns
\* Err("Unknown task in pipeline: ..").
PipeUnknown ==
    /\ ppc = "loop"
    /\ pos <= Len(steps)
    /\ CurrentStep.task \notin TaskTitles
    /\ presult' = [kind |-> "err"]
    /\ ppc' = "failed"
    /\ UNCHANGED <<steps, pos, context, ptrace>>
    /\ UNCHANGED OtherThanPipe

\* One step: the TaskSwitch event, the user content, the task's
\* execute_with_prompt, and its content becomes the context.
PipeStep(content) ==
    /\ ppc = "loop"
    /\ pos <= Len(steps)
    /\ CurrentStep.task \in TaskTitles
    /\ ptrace' = ptrace \o
          <<TaskSwitchEvent("pipeline", CurrentStep.task),
            StepEntry([kind |-> "ok", content |-> content])>>
    /\ context' = ContextAfter(context, content)
    /\ pos' = pos + 1
    /\ UNCHANGED <<ppc, steps, presult>>
    /\ UNCHANGED OtherThanPipe

\* The step's execute_with_prompt(..).await? fails: the pipeline returns
\* the error.
PipeStepErr ==
    /\ ppc = "loop"
    /\ pos <= Len(steps)
    /\ CurrentStep.task \in TaskTitles
    /\ ptrace' = ptrace \o
          <<TaskSwitchEvent("pipeline", CurrentStep.task),
            StepEntry([kind |-> "err"])>>
    /\ presult' = [kind |-> "err"]
    /\ ppc' = "failed"
    /\ UNCHANGED <<steps, pos, context>>
    /\ UNCHANGED OtherThanPipe

\* The for loop is over: Ok(ResponseMessage { role: "assistant",
\* content: Some(context), tool_calls: None }).
PipeReturn ==
    /\ ppc = "loop"
    /\ pos > Len(steps)
    /\ presult' = [kind |-> "ok", role |-> "assistant",
                   content |-> [some |-> TRUE, text |-> context],
                   tool_calls |-> NoToolCalls]
    /\ ppc' = "returned"
    /\ UNCHANGED <<steps, pos, context, ptrace>>
    /\ UNCHANGED OtherThanPipe

PipeNext ==
    \/ \E tasks \in StepLists : ExecutePipeline(tasks)
    \/ PipeUnknown
    \/ \E content \in ContentsOf(pos) : PipeStep(content)
    \/ PipeStepErr
    \/ PipeReturn

PipeSpec == Init /\ [][PipeNext]_vars

\* One call at a time: of Task::execute by the chat handler, or of
\* execute_pipeline.
CallNext ==
    \/ ppc = "idle" /\ LoopNext
    \/ lpc = "idle" /\ PipeNext

CallSpec == Init /\ [][CallNext]_vars

\* ==================================================================
\* Conversation messages
\* ==================================================================
OtherThanConv == <<jobVars, busVars, loopVars, pipeVars, truncVars, extVars>>

\* The conversations that exist.
ConversationsInUse == {reqs[r].conv : r \in Requests} \ {0}

\* conn.last_insert_rowid() of INSERT INTO conversations
NewConversationId == Cardinality(ConversationsInUse) + 1

\* INSERT INTO messages (.., m_order, ..) VALUES (.., *message_count, ..)
MessageRow(r, role) ==
    [conv |-> reqs[r].conv, role |-> role, m_order |-> reqs[r].count]

\* handle_chat_stream: the conversation is req.conversation_id, or the one
\* Conversation::init creates; let mut message_count = 0.
ChatBegin(r, c) ==
    /\ reqs[r].pc = "none"
    /\ \A q \in Requests : q < r => reqs[q].pc # "none"
    /\ c \in ConversationsInUse \cup {NewConversationId}
    /\ c <= MaxConversations
    /\ reqs' = [reqs EXCEPT ![r] = [pc |-> "user", conv |-> c, count |-> 0]]
    /\ UNCHANGED store
    /\ UNCHANGED OtherThanConv

\* conversation.add_message(Some(conversation_id), "user", ..)
AddUserMessage(r) ==
    /\ reqs[r].pc = "user"
    /\ store' = Append(store, MessageRow(r, "user"))
    /\ reqs' = [reqs EXCEPT ![r].pc = "exec", ![r].count = @ + 1]
    /\ UNCHANGED OtherThanConv

\* Ok(response) with content: conversation.add_message(.., "assistant", ..)
AddAssistantMessage(r) ==
    /\ reqs[r].pc = "exec"
    /\ store' = Append(store, MessageRow(r, "assistant"))
    /\ reqs' = [reqs EXCEPT ![r].pc = "done", ![r].count = @ + 1]
    /\ UNCHANGED OtherThanConv

\* Ok(response) without content, or Err(e): nothing is written.
NoAssistantMessage(r) ==
    /\ reqs[r].pc = "exec"
    /\ reqs' = [reqs EXCEPT ![r].pc = "done"]
    /\ UNCHANGED store
    /\ UNCHANGED OtherThanConv

ConvNext ==
    \E r \in Requests :
        \/ \E c \in 1..MaxConversations : ChatBegin(r, c)
        \/ AddUserMessage(r)
        \/ AddAssistantMessage(r)
        \/ NoAssistantMessage(r)

ConvSpec == Init /\ [][ConvNext]_vars

\* ==================================================================
\* EventSender::tool_result
\* ==================================================================
OtherThanTrunc == <<jobVars, busVars, loopVars, pipeVars, convVars, extVars>>

RECURSIVE ByteLen(_)
\* String::len(): the length in bytes.
ByteLen(text) ==
    IF text = <<>> THEN 0 ELSE Head(text) + ByteLen(Tail(text))

\* result.len() > 500
IsTruncated(text) == ByteLen(text) > TruncateAt

\* The characters of text that end within its first n bytes.
CharsWithin(text, n) ==
    {k \in 0..Len(text) : ByteLen(SubSeq(text, 1, k)) <= n}

\* &result[..500] is on a char boundary.
OnCharBoundary(text, n) ==
    \E k \in 0..Len(text) : ByteLen(SubSeq(text, 1, k)) = n

\* &result[..500]: the characters of the first 500 bytes.
BytePrefix(text, n) ==
    SubSeq(text, 1, CHOOSE k \in CharsWithin(text, n) :
                        \A j \in CharsWithin(text, n) : j <= k)

\* The ChatEvent::ToolResult that tool_result sends.
ToolResultOf(text) ==
    IF IsTruncated(text)
    THEN [result |-> BytePrefix(text, TruncateAt), truncated |-> TRUE,
          note |-> ByteLen(text)]
    ELSE [result |-> text, truncated |-> FALSE, note |-> 0]

\* The loop has a tool's result: ev.tool_result(.., result.clone()), then
\* messages.push(Message { content: Some(result), .. }). The slice panics
\* off a char boundary, and then nothing is sent and nothing is pushed.
EmitToolResult(text) ==
    /\ toolResult = NoToolResult
    /\ toolResult' =
          IF IsTruncated(text) /\ ~OnCharBoundary(text, TruncateAt)
          THEN [kind |-> "panic", text |-> text]
          ELSE [kind |-> "sent", text |-> text, event |-> ToolResultOf(text),
                pushed |-> text]
    /\ UNCHANGED OtherThanTrunc

TruncNext == \E text \in Texts : EmitToolResult(text)

TruncSpec == Init /\ [][TruncNext]_vars

\* ==================================================================
\* The memory_extraction job handler
\* ==================================================================
OtherThanMem ==
    <<jobVars, busVars, loopVars, pipeVars, convVars, truncVars, sanVars,
      promptVars, streamVars>>

\* execute up to the for loops: the LLM call succeeded, its content parsed
\* as an ExtractionResult with n memories, the conversation's device was
\* found and the clock read.  A run makes an LLM call, so that it reads a
\* later second than the run before it.
ExtractBegin(conv, n, t) ==
    /\ mjob.pc = "idle"
    /\ mjob.runs < MaxExtractions
    /\ t = mclock + 1
    /\ mclock' = t
    /\ mjob' = [pc |-> "loop", conv |-> conv, now |-> t, left |-> n,
                runs |-> mjob.runs + 1, last |-> NoMemory]
    /\ UNCHANGED memStore
    /\ UNCHANGED OtherThanMem

\* execute returns Err before the loop: the LLM call failed or
\* serde_json::from_str rejected its content.
ExtractErr ==
    /\ mjob.pc = "idle"
    /\ mjob.runs < MaxExtractions
    /\ mjob' = [mjob EXCEPT !.runs = @ + 1]
    /\ UNCHANGED <<memStore, mclock>>
    /\ UNCHANGED OtherThanMem

\* One iteration of `for memory in &extraction.memories`.
StoreMemory(m) ==
    /\ mjob.pc = "loop"
    /\ mjob.left > 0
    /\ memStore' =
         IF Skipped(m)
         THEN memStore
         ELSE Upsert(memStore,
                     MemoryRow(ConvDevice[mjob.conv], mjob.conv, m, mjob.now))
    /\ mjob' = [mjob EXCEPT !.left = @ - 1,
                            !.last = IF Skipped(m) THEN NoMemory ELSE m]
    /\ UNCHANGED mclock
    /\ UNCHANGED OtherThanMem

\* The loop is over; the keywords are stored and execute returns.
ExtractEnd ==
    /\ mjob.pc = "loop"
    /\ mjob.left = 0
    /\ mjob' = [mjob EXCEPT !.pc = "idle", !.last = NoMemory]
    /\ UNCHANGED <<memStore, mclock>>
    /\ UNCHANGED OtherThanMem

MemNext ==
    \/ \E conv \in MemConversations, n \in MemoryCounts,
          t \in 0..MaxExtractions : ExtractBegin(conv, n, t)
    \/ ExtractErr
    \/ \E m \in ExtractedMemories : StoreMemory(m)
    \/ ExtractEnd

MemSpec == Init /\ [][MemNext]_vars

\* ==================================================================
\* Title::sanitize_title
\* ==================================================================
OtherThanSan ==
    <<jobVars, busVars, loopVars, pipeVars, convVars, truncVars, memVars,
      promptVars, streamVars>>

\* sanitize_title(title) is called on a title.
SanitizeTitle(title) ==
    /\ san.n = 0
    /\ san' = [n |-> 1, title |-> title, out |-> sanitize_title(title),
               again |-> <<>>]
    /\ UNCHANGED OtherThanSan

\* sanitize_title is called on the title it returned.
SanitizeAgain ==
    /\ san.n = 1
    /\ san' = [san EXCEPT !.n = 2, !.again = sanitize_title(san.out)]
    /\ UNCHANGED OtherThanSan

SanNext ==
    \/ \E title \in Titles : SanitizeTitle(title)
    \/ SanitizeAgain

SanSpec == Init /\ [][SanNext]_vars

\* ==================================================================
\* Task::build_system_prompt
\* ==================================================================
OtherThanPrompt ==
    <<jobVars, busVars, loopVars, pipeVars, convVars, truncVars, memVars,
      sanVars, streamVars>>

\* build_system_prompt returns Ok(prompt); mems is what db.query gave.
BuildSystemPrompt(t, mems) ==
    /\ sysPrompt.n = 0
    /\ sysPrompt' = [n |-> 1, task |-> t, memories |-> mems,
                     out |-> build_system_prompt(t, mems)]
    /\ UNCHANGED OtherThanPrompt

\* db.query(..)? or serde_json::from_str(..)? fails: Err, no prompt.
BuildSystemPromptErr(t) ==
    /\ sysPrompt.n = 0
    /\ sysPrompt' = [n |-> 2, task |-> t, memories |-> <<>>, out |-> <<>>]
    /\ UNCHANGED OtherThanPrompt

PromptNext ==
    \/ \E t \in PromptTasks, mems \in MemoryLists : BuildSystemPrompt(t, mems)
    \/ \E t \in PromptTasks : BuildSystemPromptErr(t)

PromptSpec == Init /\ [][PromptNext]_vars

\* ==================================================================
\* Specialist::execute_streaming
\* ==================================================================
OtherThanStream ==
    <<jobVars, busVars, loopVars, pipeVars, convVars, truncVars, memVars,
      sanVars, promptVars>>

\* The request is sent and the response arrives: its body is the frames,
\* each on a line.
StreamBegin(frames, trailing_newline) ==
    /\ stream.pc = "idle"
    /\ stream' = [NoStream EXCEPT !.pc = "reading",
                                  !.frames = frames,
                                  !.wire = Wire(Len(frames),
                                                trailing_newline)]
    /\ UNCHANGED OtherThanStream

\* stream.next() gives a chunk of n bytes: one iteration of the outer
\* while loop.
StreamChunk(n) ==
    /\ stream.pc = "reading"
    /\ n \in 1..Len(stream.wire)
    /\ LET drained == DrainLines(stream.frames,
                                 stream.buffer \o SubSeq(stream.wire, 1, n),
                                 stream.acc)
       IN  stream' = [stream EXCEPT
                        !.wire = SubSeq(@, n + 1, Len(@)),
                        !.buffer = drained.buffer,
                        !.acc = drained.acc,
                        !.chunks = @ + 1,
                        !.pc = IF drained.acc.err THEN "err" ELSE @]
    /\ UNCHANGED OtherThanStream

\* stream.next() gives None: what is left in the buffer is the last line,
\* and the ResponseMessage is returned.
StreamEnd ==
    /\ stream.pc = "reading"
    /\ stream.wire = <<>>
    /\ LET acc == AbsorbLine(stream.frames, stream.buffer, stream.acc)
       IN  stream' = [stream EXCEPT
                        !.buffer = <<>>,
                        !.acc = acc,
                        !.response = StreamResponse(acc),
                        !.pc = IF acc.err THEN "err" ELSE "returned"]
    /\ UNCHANGED OtherThanStream

StreamNext ==
    \/ \E frames \in FrameLists, trailing_newline \in BOOLEAN :
          StreamBegin(frames, trailing_newline)
    \/ \E n \in 1..(3 * MaxFrames) : StreamChunk(n)
    \/ StreamEnd

StreamSpec == Init /\ [][StreamNext]_vars

\* ==================================================================
\* Properties
\* ==================================================================
JobIds == 1..Len(background)
StatusOf(i) == background[i].status
TitleOf(c) == conversations[c].title
\* The worker is inside the process_next_job call that handles job i.
Held(i) == cur = i /\ wpc \in {"mark_running", "execute", "fallback"}

\* C1: at every moment at most one job of the background store has status
\* 'running', whatever the interleaving of job creation with the worker's
\* run loop and the later drain_queue.
C1_AtMostOneRunning ==
    Cardinality({i \in JobIds : StatusOf(i) = "running"}) <= 1

\* C1 witness: during drain_queue one job is running while another, created
\* by a handler, is pending.
C1_Witness ==
    /\ caller = "drain"
    /\ \E i, k \in JobIds :
          /\ StatusOf(i) = "running"
          /\ StatusOf(k) = "pending"
          /\ k > i

\* A worker step: the worker's position changes.
WorkerStep == wpc' # wpc

\* Row a is ahead of row b in ORDER BY priority DESC, created_at ASC, or
\* level with it.
NotAfter(a, b) ==
    \/ a.priority > b.priority
    \/ a.priority = b.priority /\ a.created_at <= b.created_at

\* C2: the job process_next_job claims is, among the jobs whose status is
\* 'pending' when it reads the queue, one of greatest priority and, among
\* those, of smallest created_at; that job and no other is then marked
\* running; when no job is pending, process_next_job returns and changes
\* no job.
C2_ClaimsByPriorityThenAge ==
    [][ /\ (wpc = "select" /\ wpc' = "mark_running") =>
              /\ StatusOf(cur') = "pending"
              /\ \A k \in JobIds :
                    StatusOf(k) = "pending" =>
                        NotAfter(background[cur'], background[k])
        /\ (wpc = "mark_running" /\ WorkerStep) =>
              /\ background'[cur].status = "running"
              /\ \A k \in JobIds \ {cur} : background'[k] = background[k]
        /\ (wpc = "select" /\ WorkerStep
              /\ \A k \in JobIds : StatusOf(k) # "pending") =>
              /\ wpc' = caller
              /\ UNCHANGED <<background, conversations, runs>>
      ]_vars

\* C2 witness: a priority-10 job created later is held for claiming while a
\* priority-5 job created earlier is pending.
C2_Witness ==
    /\ wpc = "mark_running"
    /\ background[cur].priority = 10
    /\ \E k \in JobIds :
          /\ StatusOf(k) = "pending"
          /\ background[k].priority = 5
          /\ background[k].created_at < background[cur].created_at

\* C3: a job's handler is run at most max_retries times; retries counts the
\* handler failures one by one; after a failure the job is pending again
\* while retries < max_retries and failed once retries has reached
\* max_retries (3 for a title job), and a failed job is never claimed again.
C3_BoundedRetries ==
    \A i \in JobIds :
        LET job == background[i] IN
        /\ runs[i] <= job.max_retries
        /\ job.retries = runs[i] - (IF job.status = "completed" THEN 1 ELSE 0)
        /\ job.retries <= job.max_retries
        /\ job.retries = job.max_retries => job.status = "failed"
        /\ (job.retries < job.max_retries /\ job.status # "completed"
              /\ ~Held(i)) => job.status = "pending"
        /\ (cur = i /\ wpc \in {"mark_running", "execute"}) =>
              job.status # "failed"

\* C3 witness: a title job whose handler failed 3 times is failed, while
\* another job goes through a retry.
C3_Witness ==
    \E i, k \in JobIds :
        /\ background[i].method = "title_generation"
        /\ background[i].max_retries = 3
        /\ runs[i] = 3
        /\ StatusOf(i) = "failed"
        /\ wpc = "select"
        /\ StatusOf(k) = "pending"
        /\ background[k].retries = 2

\* C4: in every reachable state a job is 'failed' if and only if its
\* retries is at least its max_retries.
C4_FailedIffExhausted ==
    \A i \in JobIds :
        StatusOf(i) = "failed" <=>
            background[i].retries >= background[i].max_retries

\* C4 witness: one job is failed with retries = max_retries = 3 while another
\* has failed twice and is pending.
C4_Witness ==
    \E i, k \in JobIds :
        /\ StatusOf(i) = "failed"
        /\ background[i].retries = 3
        /\ background[i].max_retries = 3
        /\ StatusOf(k) = "pending"
        /\ background[k].retries = 2

\* C5: a job's status only changes pending->running, running->completed,
\* running->pending or running->failed; a completed or failed job is never
\* changed again, and retries never decreases.
C5_StatusTransitions ==
    [][ \A i \in JobIds :
          LET a == background[i]
              b == background'[i]
          IN  /\ \/ a.status = b.status
                 \/ <<a.status, b.status>> \in
                       {<<"pending", "running">>, <<"running", "completed">>,
                        <<"running", "pending">>, <<"running", "failed">>}
              /\ a.status \in {"completed", "failed"} => b = a
              /\ b.retries >= a.retries
      ]_vars

\* C5 witness: every kind of transition has happened: one job is completed
\* after a retry, another is failed.
C5_Witness ==
    \E i, k \in JobIds :
        /\ StatusOf(i) = "completed"
        /\ background[i].retries >= 1
        /\ StatusOf(k) = "failed"

TitleJobs == {i \in JobIds : background[i].method = "title_generation"}

\* C6: whenever a title_generation job has become 'failed' by exhausting its
\* retries, the conversation named by its conversation_id has, when that
\* process_next_job call is over, a title conv_<8 hex>.
C6_FallbackTitleAssigned ==
    \A i \in TitleJobs :
        (StatusOf(i) = "failed" /\ ~Held(i)) =>
            TitleOf(background[i].conversation_id).kind = "fallback"

C8_ShutdownLeadsToExit == shutdown ~> (wpc = "exited")

Idle == \A i \in JobIds : StatusOf(i) \notin {"pending", "running"}

\* C9: drain_queue returns only in a state where no job is pending or
\* running, and only from its own check; called in such a state it returns
\* at once, without claiming or running a job.
C9_DrainReturnsWhenIdle ==
    [][ /\ wpc' = "exited" => (Idle /\ Idle')
        /\ (wpc # "exited" /\ wpc' = "exited") => wpc = "drain"
        /\ (wpc = "drain" /\ Idle /\ WorkerStep) =>
              /\ wpc' = "exited"
              /\ UNCHANGED <<background, conversations, runs, cur>>
      ]_vars

\* C9 witness: drain_queue has returned after the queue was worked off: one
\* job completed and one failed.
C9_Witness ==
    /\ wpc = "exited"
    /\ \E i, k \in JobIds :
          StatusOf(i) = "completed" /\ StatusOf(k) = "failed"

\* C10: every completed job has completed_at >= started_at >= created_at,
\* also when it completed after failed attempts.
C10_CompletedTimestampsOrdered ==
    \A i \in JobIds :
        StatusOf(i) = "completed" =>
            /\ background[i].completed_at >= background[i].started_at
            /\ background[i].started_at >= background[i].created_at

\* C10 witness: a job completed at its third attempt, later than it was
\* created.
C10_Witness ==
    \E i \in JobIds :
        /\ StatusOf(i) = "completed"
        /\ background[i].retries = 2
        /\ background[i].completed_at > background[i].created_at

\* ------------------------------------------------------------------
\* Event bus
\* ------------------------------------------------------------------
TerminalSent(id) == {i \in 1..Len(sent[id]) : sent[id][i] \in TerminalKinds}
\* The spawned task of the request is over.
TaskEnded(id) == tpc[id] \in {"done", "panicked"}

\* C11: for every streamed chat request exactly one terminal event (Done
\* or Error) is sent, it is the last event sent for the request, and once
\* the request's task is over the request's channel is absent from the
\* event-bus map.
C11_ExactlyOneTerminal ==
    \A id \in RequestIds :
        /\ Cardinality(TerminalSent(id)) <= 1
        /\ \A i \in TerminalSent(id) : i = Len(sent[id])
        /\ TaskEnded(id) =>
              /\ Cardinality(TerminalSent(id)) = 1
              /\ id \notin EVENT_CHANNELS

\* C12: the events a request's subscriber receives are events sent for that
\* request, in send order, none of them twice.
C12_DeliveredInSendOrder ==
    \A id \in RequestIds :
        /\ \A k \in 1..Len(received[id]) :
              received[id][k] \in 1..Len(sent[id])
        /\ \A k, m \in 1..Len(received[id]) :
              k < m => received[id][k] < received[id][m]

\* C12 witness: a subscriber has received the first and the third event of
\* its request and lost the second to lag.
C12_Witness ==
    \E id \in RequestIds :
        /\ Len(sent[id]) = 3
        /\ received[id] = <<1, 3>>

\* C13: a send_event for an id that is not in the event-bus map delivers
\* nothing, creates no entry and leaves the map, every channel and every
\* subscriber as they were.
C13_SendToAbsentIsNoOp ==
    [][late' # late =>
          UNCHANGED <<EVENT_CHANNELS, queue, rx, received, sent, tpc>>]_vars

\* C13 witness: a send was made for the id of a request whose channel had
\* been removed after its terminal event, while the channel of the other
\* request holds events.
C13_Witness ==
    \E id \in late :
        /\ tpc[id] = "done"
        /\ \E other \in EVENT_CHANNELS : queue[other] # <<>>

\* C14: if the subscriber of a streamed request has disconnected, the
\* spawned task still runs to completion: it persists the assistant
\* message, sends its terminal event and removes the request's channel.
C14_AbandonedTaskCompletes ==
    \A id \in RequestIds :
        (rx[id].state = "dropped" /\ TaskEnded(id)) =>
            /\ tpc[id] = "done"
            /\ TerminalSent(id) # {}
            /\ id \notin EVENT_CHANNELS
            /\ reply[id] = "content" => id \in persisted

\* C15: a subscriber that falls behind by more than the channel buffer
\* loses only events older than the BufCap newest ones, is not ended by
\* the lag, and still receives the terminal event although the sender is
\* dropped right after the terminal send.
C15_LagKeepsTerminal ==
    \A id \in RequestIds :
        rx[id].state \in {"open", "ended"} =>
            /\ \A p \in FirstRetained(queue[id])..(rx[id].next - 1) :
                  queue[id][p].n \in
                      {received[id][k] : k \in 1..Len(received[id])}
            /\ rx[id].next <= Len(queue[id]) + 1
            /\ rx[id].state = "ended" =>
                  /\ tpc[id] = "done"
                  /\ received[id] # <<>>
                  /\ sent[id][received[id][Len(received[id])]]
                        \in TerminalKinds

\* C15 witness: the stream of a subscriber that lost an event to lag has
\* ended after delivering the terminal event.
C15_Witness ==
    \E id \in RequestIds :
        /\ rx[id].state = "ended"
        /\ Len(received[id]) < Len(queue[id])
        /\ sent[id][received[id][Len(received[id])]] \in TerminalKinds

\* ------------------------------------------------------------ agentic loop
LlmIndexes == {i \in 1..Len(trace) : trace[i].op = "llm"}
NoCalls(tool_calls) == ~tool_calls.some \/ tool_calls.calls = <<>>

\* C16: every response the loop returns has tool_calls absent or empty,
\* also when it returns through a switch_task into another task.
C16_ReturnedWithoutToolCalls ==
    lpc = "returned" => NoCalls(result.tool_calls)

\* C17: a response of an agentic task whose tool_calls is absent or an empty
\* list is the terminal response: no LLM invocation follows it.
C17_NoToolCallsIsTerminal ==
    \A i \in LlmIndexes :
        (TaskType(trace[i].task) = "AgenticLoop" /\ NoCalls(trace[i].tool_calls))
            => \A j \in LlmIndexes : j <= i

\* The LLM invocations of the loop that is running: those since the last
\* switch_task handed over to it.
SwitchIndexes == {i \in 1..Len(trace) : trace[i].op = "TaskSwitch"}
IterationsOfInvocation ==
    Cardinality({i \in LlmIndexes : \A j \in SwitchIndexes : j < i})
\* The configured bound, scaled to the model: one less than the horizon.
IterationBound == MaxTurns - 1

\* C18: one loop invocation performs at most the configured bound of
\* iterations.
C18_IterationsBounded ==
    IterationsOfInvocation <= IterationBound

LastEntry(s) == s[Len(s)]

\* C19: a switch_task call with a known target emits the tool call and then
\* TaskSwitch{from, to} and nothing else, appends the 'Task switch' message
\* after all messages accumulated so far, and the next thing that happens is
\* the LLM invocation of the target task with exactly that message list.
C19_SwitchStep ==
    /\ (lpc = "calls" /\ CurrentCall.name = "switch_task"
            /\ CurrentCall.target \in TaskTitles)
        => /\ trace' = trace \o <<ToolCallEvent,
                                  TaskSwitchEvent(task, CurrentCall.target)>>
           /\ messages' = Append(messages,
                                 SwitchMessage(task, CurrentCall.target))
           /\ task' = CurrentCall.target
           /\ lpc' = "llm"
    /\ (lpc = "llm" /\ trace # <<>> /\ LastEntry(trace).op = "TaskSwitch"
            /\ trace' # trace)
        => /\ trace' = Append(trace, LastEntry(trace'))
           /\ LastEntry(trace').op = "llm"
           /\ LastEntry(trace').task = LastEntry(trace).to
           /\ LastEntry(trace').messages = messages
           /\ LastEntry(messages) =
                  SwitchMessage(LastEntry(trace).from, LastEntry(trace).to)
C19_SwitchContinuesUnderTarget == [][C19_SwitchStep]_vars

\* A tool ran, then switch_task handed its result and the switch message to
\* web_research, whose LLM was invoked.
C19_Witness ==
    \E i \in LlmIndexes :
        /\ i > 1
        /\ trace[i - 1] = TaskSwitchEvent("chat", "web_research")
        /\ Len(trace[i].messages) = Len(InitialMessages) + 3
        /\ trace[i].messages[Len(InitialMessages) + 2].kind = "result"

\* The llm entry of the turn the trace entry i belongs to.
TurnOf(i) == CHOOSE l \in LlmIndexes :
                 l < i /\ \A k \in LlmIndexes : k < i => k <= l

\* The execution entry that belongs to a ToolCall or ToolResult event.
ExecutionOf(e) ==
    [op |-> "exec", task |-> e.task, turn |-> e.turn, n |-> e.n,
     call |-> e.call, mode |-> ExecMode(e.call.name)]

C20_TraceInOrder ==
    \A i \in 1..Len(trace) :
        LET e == trace[i] IN
        /\ e.op = "ToolCall"
            => /\ e.call = trace[TurnOf(i)].tool_calls.calls[e.n]
               /\ e.n = 1 => TurnOf(i) = i - 1
               /\ e.n > 1 => /\ trace[i - 1].op = "ToolResult"
                              /\ trace[i - 1] =
                                    [e EXCEPT !.op = "ToolResult",
                                              !.n = e.n - 1,
                                              !.call = trace[i - 1].call]
               /\ (e.call.name # "switch_task" /\ i < Len(trace))
                      => trace[i + 1] = ExecutionOf(e)
        /\ e.op = "exec"
            => /\ i > 1
               /\ trace[i - 1].op = "ToolCall"
               /\ ExecutionOf(trace[i - 1]) = e
               /\ i < Len(trace) => /\ trace[i + 1].op = "ToolResult"
                                     /\ ExecutionOf(trace[i + 1]) = e
        /\ e.op = "ToolResult"
            => trace[i - 1] = ExecutionOf(e)

C20_ResultAppended ==
    (Len(trace') > Len(trace) /\ LastEntry(trace').op = "ToolResult")
        => \E outcome \in {"ok", "error"} :
               messages' = Append(messages,
                   ResultMessage(response.calls[LastEntry(trace').n], outcome))

\* C20: the tool calls of a turn run one at a time in the order of the
\* response: ToolCall, execution, ToolResult of call i, then the ToolCall of
\* call i+1; each result message is appended when its ToolResult is emitted.
C20_ToolCallsSequential == []C20_TraceInOrder /\ [][C20_ResultAppended]_vars

\* Two tool calls of one turn have run, the first succeeded and the second
\* failed.
C20_Witness ==
    /\ \E i \in 1..Len(trace) : trace[i].op = "ToolResult" /\ trace[i].n = 2
    /\ Len(messages) = Len(InitialMessages) + 3
    /\ messages[Len(messages) - 1].kind = "result"
    /\ messages[Len(messages) - 1].outcome = "ok"
    /\ LastEntry(messages).kind = "result"
    /\ LastEntry(messages).outcome = "error"

\* The step runs a tool whose execution fails.
ToolFailsInStep ==
    /\ lpc = "calls"
    /\ CurrentCall.name # "switch_task"
    /\ trace' # trace
    /\ \/ lpc' = "panicked" /\ result'.outcome # "ok"
       \/ /\ lpc' # "panicked"
          /\ Len(messages') > Len(messages)
          /\ LastEntry(messages').outcome # "ok"

C21_FailureStep ==
    ToolFailsInStep
        => /\ Len(messages') = Len(messages) + 1
           /\ LastEntry(messages').role = "assistant"
           /\ LastEntry(messages').content[1] = "Error: "
           /\ LastEntry(trace') = ToolResultEvent
           /\ IF idx < Len(response.calls)
              THEN lpc' = "calls" /\ idx' = idx + 1
              ELSE lpc' = "llm"

\* C21: a failing tool execution never aborts the loop: 'Error: <msg>' is
\* appended as an assistant message, the ToolResult event is emitted, and
\* the loop goes on with the next tool call or the next LLM turn.
C21_FailureNeverAborts == [][C21_FailureStep]_vars

ExecIndexes == {i \in 1..Len(trace) : trace[i].op = "exec"}

C23_ModeByLocation ==
    \A i \in ExecIndexes :
        LET name == trace[i].call.name IN
        /\ trace[i].mode = "remote" <=> SchemaLocation(name) = "Client"
        /\ SchemaLocation(name) \in {"Server", "none"}
              => trace[i].mode = "local"

C23_UnknownNameStep ==
    (lpc = "calls" /\ trace' # trace
        /\ SchemaLocation(CurrentCall.name) = "none"
        /\ CurrentCall.name \notin HandlerTable)
      => /\ LastEntry(messages').content =
               <<"Error: ", "Tool '", CurrentCall.name, "' not found">>
         /\ trace'[Len(trace') - 1].mode = "local"

\* C23: a tool runs remotely if and only if its schema has location Client;
\* a Server tool or a name without a schema runs through the local handler
\* table, and an unknown name gives the 'not found' error text.
C23_RemoteIffClient == []C23_ModeByLocation /\ [][C23_UnknownNameStep]_vars

\* One turn ran a Client tool remotely and then an unregistered name
\* locally, which gave 'not found'.
C23_Witness ==
    /\ \E i \in ExecIndexes :
           trace[i].call.name = "read_file" /\ trace[i].mode = "remote"
    /\ \E i \in ExecIndexes :
           trace[i].call.name = "no_such_tool" /\ trace[i].mode = "local"
    /\ LastEntry(messages).kind = "result"
    /\ LastEntry(messages).outcome = "not_found"

\* The switch_task calls of the trace whose target names no task.
UnknownSwitchIndexes ==
    {i \in 1..Len(trace) :
        /\ trace[i].op = "ToolCall"
        /\ trace[i].call.name = "switch_task"
        /\ trace[i].call.target \notin TaskTitles}

C22_SwitchAborts ==
    \A i \in UnknownSwitchIndexes :
        /\ lpc \in {"failed", "done"}
        /\ result.kind = "err"
        /\ \A j \in 1..Len(trace) :
               /\ trace[j].op \notin {"persist", "Done"}
               /\ j > i => (j = i + 1 /\ trace[j].op = "Error")
        /\ lpc = "done" => LastEntry(trace).op = "Error"

C22_PipelineAbortStep ==
    /\ (ppc = "loop" /\ pos <= Len(steps)
            /\ CurrentStep.task \notin TaskTitles)
        => (ppc' = "failed" /\ presult'.kind = "err" /\ ptrace' = ptrace)
    /\ ppc = "failed" => UNCHANGED pipeVars

StepEntries == SelectSeq(ptrace, LAMBDA e : e.op = "step")

TextOf(content) == IF content.some THEN content.text ELSE <<>>

\* C24: a pipeline over a non-empty list of steps that all resolve and
\* succeed returns role assistant, no tool calls, and exactly the content
\* of the last step (the empty string when it is absent).
C24_FinalContentIsLastStep ==
    (ppc = "returned" /\ steps # <<>>)
        => /\ presult.kind = "ok"
           /\ presult.role = "assistant"
           /\ presult.tool_calls = NoToolCalls
           /\ presult.content.some
           /\ Len(StepEntries) = Len(steps)
           /\ presult.content.text =
                  TextOf(LastEntry(StepEntries).outcome.content)

\* Three steps returned content and the pipeline returned the third's.
C24_Witness ==
    /\ ppc = "returned"
    /\ Len(StepEntries) = 3
    /\ StepEntries[1].outcome.content.text = <<"content", 1>>
    /\ StepEntries[2].outcome.content.text = <<"content", 2>>
    /\ presult.content.text = <<"content", 3>>

C26_EmptyPipelineFails ==
    (ppc \in {"returned", "failed"} /\ steps = <<>>) => presult.kind = "err"

\* C27: the first LLM invocation of a chat request is the Router's.
C27_RouterRunsFirst ==
    \A i \in LlmIndexes :
        (\A j \in LlmIndexes : i <= j) => trace[i].task = "router"

\* C28: the tools advertised to the LLM when the Router task is invoked
\* are exactly {plan_tasks}.
C28_RouterSeesOnlyPlanTasks ==
    \A i \in 1..Len(StepEntries) :
        StepEntries[i].task = "router"
            => StepEntries[i].tools = {"plan_tasks"}

\* ------------------------------------------------------------ messages
\* C29: within a conversation the messages get strictly increasing m_order
\* values in the order they are written, also across requests.
C29_OrderStrictlyIncreasing ==
    \A i, j \in 1..Len(store) :
        (i < j /\ store[i].conv = store[j].conv)
            => store[i].m_order < store[j].m_order

\* ------------------------------------------------------------ tool_result
\* C30: tool_result emits truncated=false with the full text for a result
\* of up to the limit in characters, truncated=true with a prefix of that
\* many characters and a length note for a longer one, and the message
\* pushed to the history carries the full result.
C30_TruncationByLength ==
    toolResult.kind # "none"
        => /\ toolResult.kind = "sent"
           /\ toolResult.pushed = toolResult.text
           /\ IF Len(toolResult.text) <= TruncateAt
              THEN /\ ~toolResult.event.truncated
                   /\ toolResult.event.result = toolResult.text
              ELSE /\ toolResult.event.truncated
                   /\ toolResult.event.result =
                          SubSeq(toolResult.text, 1, TruncateAt)
                   /\ toolResult.event.note > 0

\* ------------------------------------------------------------------
\* C31: the memory store never holds two rows with the same (device_id,
\* task_id, key); an extracted memory whose key is already stored for the
\* device and task updates that row's value, confidence and updated_at and
\* adds no row, and one whose key is not stored adds exactly one row.
MemIds == 1..Len(memStore)

C31_Unique ==
    \A i, j \in MemIds :
        (/\ memStore[i].device_id = memStore[j].device_id
         /\ memStore[i].task_id = memStore[j].task_id
         /\ memStore[i].key = memStore[j].key) => i = j

\* The rows of the device of the running job with the given key.
StoredFor(rows, key) ==
    {i \in 1..Len(rows) : /\ rows[i].device_id = ConvDevice[mjob.conv]
                          /\ rows[i].task_id = TargetTaskId(key)
                          /\ rows[i].key = key}

C31_UpsertStep ==
    (/\ mjob.pc = "loop"
     /\ mjob'.left = mjob.left - 1
     /\ mjob'.last # NoMemory)
    => LET m == mjob'.last
           old == StoredFor(memStore, m.key)
       IN  IF old # {}
           THEN /\ Len(memStore') = Len(memStore)
                /\ \A i \in old :
                       /\ memStore'[i].value = m.value
                       /\ memStore'[i].confidence = m.confidence
                       /\ memStore'[i].updated_at = mjob.now
                       /\ memStore'[i].created_at = memStore[i].created_at
                /\ \A i \in MemIds \ old : memStore'[i] = memStore[i]
           ELSE /\ Len(memStore') = Len(memStore) + 1
                /\ \A i \in MemIds : memStore'[i] = memStore[i]
                /\ memStore'[Len(memStore')].key = m.key
                /\ memStore'[Len(memStore')].value = m.value
                /\ memStore'[Len(memStore')].confidence = m.confidence

C31_KeyUniqueInStore == []C31_Unique /\ [][C31_UpsertStep]_vars

\* A second extraction has updated a stored row: one row, written at a
\* later time than it was created.
C31_Witness ==
    \E i \in MemIds : memStore[i].updated_at > memStore[i].created_at

\* ------------------------------------------------------------------
\* C32: every row memory extraction writes has memory_type in {fact,
\* preference, context} and a confidence between 0 and 1 inclusive (0 to
\* 10 tenths), whatever the LLM returned.
C32_RowsWellTyped ==
    \A i \in MemIds :
        /\ memStore[i].memory_type \in ValidMemoryTypes
        /\ memStore[i].confidence >= 0
        /\ memStore[i].confidence <= 10

\* ------------------------------------------------------------------
\* C33: sanitize_title is idempotent; its output holds only letters,
\* digits and underscores, with no leading, trailing or consecutive
\* underscore; 'Hello, World! / Test-1' gives 'Hello_World_Test_1'.
C33_SanitizeIdempotent ==
    /\ san.n = 2 => san.again = san.out
    /\ san.n >= 1 =>
         /\ \A i \in 1..Len(san.out) : san.out[i] \in AsciiAlnum \cup {"_"}
         /\ san.out # <<>> => /\ san.out[1] # "_"
                              /\ san.out[Len(san.out)] # "_"
         /\ \A i \in 1..(Len(san.out) - 1) :
                ~(san.out[i] = "_" /\ san.out[i + 1] = "_")
         /\ san.title = ExampleTitle => san.out = ExampleSanitized

\* A title with separators at its ends and in a run has been sanitized
\* to a title with an underscore in it, and that one sanitized again.
C33_Witness ==
    /\ san.n = 2
    /\ Len(san.title) = MaxTitleLen
    /\ MapChar(san.title[1]) = "_"
    /\ \E i \in 1..Len(san.out) : san.out[i] = "_"

\* ------------------------------------------------------------------
\* C34: in a streamed chat request the assistant message is written to
\* the store before Done is sent: Done is never sent for a request whose
\* reply was not persisted.
C34_DoneImpliesPersisted ==
    \A id \in RequestIds :
        (\E i \in 1..Len(sent[id]) : sent[id][i] = "Done")
        => id \in persisted

\* ------------------------------------------------------------------
\* C35: build_system_prompt returns the task's instructions, then the
\* tool section when the task exposes tools, then the memory blocks; with
\* no stored memories it returns the instructions followed by the tool
\* section when the task exposes tools, and the instructions alone
\* otherwise.
C35_PromptInOrder ==
    sysPrompt.n = 1
    => sysPrompt.out =
         Instructions(sysPrompt.task) \o ToolSection(sysPrompt.task)
           \o MemoryBlocks(sysPrompt.memories)

\* ------------------------------------------------------------------
\* C36: the ResponseMessage assembled in streaming mode depends only on
\* the frames, not on the network chunks nor on a final newline: content
\* is the concatenation in frame order of the non-empty frame contents
\* (absent when all are empty), role is the last role seen, and
\* tool_calls is the last non-empty tool_calls field of any frame.
RECURSIVE ConcatContents(_)
ConcatContents(frames) ==
    IF frames = <<>>
    THEN <<>>
    ELSE frames[1].content.v \o ConcatContents(Tail(frames))

NonEmptyToolCalls(frames) ==
    {k \in 1..Len(frames) :
        frames[k].tool_calls.some /\ frames[k].tool_calls.v # <<>>}

LastOf(S) == CHOOSE k \in S : \A j \in S : j <= k

C36_AssembledFromFrames ==
    stream.pc = "returned" =>
        LET frames == stream.frames
        IN  /\ stream.response.content =
                 (IF ConcatContents(frames) = <<>>
                  THEN Absent
                  ELSE Present(ConcatContents(frames)))
            /\ frames # <<>> =>
                 stream.response.role = frames[Len(frames)].role
            /\ stream.response.tool_calls =
                 (IF NonEmptyToolCalls(frames) = {}
                  THEN Absent
                  ELSE frames[LastOf(NonEmptyToolCalls(frames))].tool_calls)

\* C37: the loop transfers control from task T to task U only if U is one
\* of the switches T permits (Task::available_switches).
C37_SwitchOnlyIfPermitted ==
    \A i \in SwitchIndexes :
        trace[i].to \in AvailableSwitches(trace[i].from)

\* C38: while the worker keeps polling, every job inserted as 'pending'
\* eventually reaches 'completed' or 'failed': none stays 'pending' or
\* 'running' for ever.
Unsettled(i) ==
    i <= Len(background) /\ background[i].status \in {"pending", "running"}
Settled(i) ==
    i <= Len(background) /\ background[i].status \in {"completed", "failed"}

C38_EveryJobSettles ==
    \A i \in 1..MaxJobs : Unsettled(i) ~> (Settled(i) \/ wpc = "exited")

\* C39: an event sent for one request id is never stored in the channel of
\* another request id and never delivered to that id's subscriber, however
\* the create_channel, send_event and cleanup_channel calls of concurrent
\* requests interleave.
StoredForOwnId ==
    \A id \in RequestIds :
        \A k \in 1..Len(queue[id]) : queue[id][k].id = id

DeliveredOwnEvent ==
    \A id \in RequestIds :
        received'[id] # received[id] =>
            /\ queue[id][rx[id].next].id = id
            /\ received'[id] = Append(received[id], queue[id][rx[id].next].n)
            /\ sent[id][queue[id][rx[id].next].n] = queue[id][rx[id].next].kind

C39_NoCrossDelivery == []StoredForOwnId /\ [][DeliveredOwnEvent]_vars

\* C39 witness: both requests have their channel in the map at once, each
\* task has sent events and each subscriber has been delivered one.
C39_Witness ==
    /\ EVENT_CHANNELS = RequestIds
    /\ \A id \in RequestIds :
          /\ sent[id] # <<>>
          /\ received[id] # <<>>
          /\ rx[id].state = "open"

\* C40: tool_result completes and emits a ToolResult event for every result
\* longer than the limit in bytes, also when the byte at the limit falls
\* inside a multi-byte character: it never panics.
C40_LongResultNeverPanics ==
    (toolResult.kind # "none" /\ ByteLen(toolResult.text) > TruncateAt)
        => /\ toolResult.kind = "sent"
           /\ toolResult.event.truncated

====
